---- MODULE Spec2Model ----
(***************************************************************************)
(* A model of the dedup snapshotter's chunk store and chunk index          *)
(* (pkg/storage/dedup.go: DedupStore, IndexDB) and of its EROFS mount      *)
(* manager (pkg/erofs: MountManager).                                      *)
(*                                                                         *)
(* The SQLite tables of the index are functions whose domain is the set    *)
(* of primary keys present.  A hex digest is a sequence of characters and  *)
(* the chunks column of the files table is the comma separated string the  *)
(* code builds, also a sequence of characters.                             *)
(***************************************************************************)
EXTENDS Integers, Sequences, FiniteSets, Bags, TLC

----------------------------------------------------------------------------
(* Universes and bounds *)

Paths == {"p1", "p2"}

\* The distinct chunk-sized content patterns a stream is built from.
Blocks == {"A", "B"}

\* The goroutines calling WriteFile.
Writers == {"w1", "w2"}

\* The longest stream, in chunks.
MaxLen == 2

\* The number of WriteFile and IndexFile calls in a run.
MaxCalls == 2

\* The number of direct IncrementRefCount and DecrementRefCount calls in a run.
MaxAdjusts == 3

\* The number of shutdowns (clean or crash) and disk corruptions in a run.
MaxRestarts == 2

\* The number of mount manager calls in a run.
MaxMountOps == 5

ChunkSize == 4 * 1024 * 1024

----------------------------------------------------------------------------
(* State *)

VARIABLES
    chunks,       \* table chunks: hash -> [size, ref_count]
    files,        \* table files: path -> chunks (comma separated string)
    chunkFiles,   \* the names of the files under <root>/chunks/
    dbFile,       \* index.db exists
    lockFile,     \* index.db.lock exists
    walFile,      \* index.db-wal exists
    corrupt,      \* PRAGMA integrity_check does not answer "ok"
    open,         \* a DedupStore has been constructed and not shut down
    pc,           \* per writer: where it is inside WriteFile
    cur,          \* per writer: the arguments of the WriteFile call in progress
    calls,        \* WriteFile and IndexFile calls begun
    ret,          \* per writer: the last WriteFile call that returned
    written,      \* the digests of the streams successfully written
    adjusts,      \* direct calls of IncrementRefCount / DecrementRefCount
    faulted,      \* some database statement has returned an error
    restarts,     \* shutdowns and corruptions so far
    last,         \* the last operation that changed the index, with its pre-state
    lastExit,     \* how the previous store ended
    boot,         \* what the last NewIndexDB did
    activeMounts, \* MountManager.activeMounts: imageID -> MountPoint
    kernelMounts, \* per image: filesystems mounted at <root>/mounts/<imageID>
    loopDevs,     \* per image: loop devices attached to its image file
    mountDirs,    \* the directories under <root>/mounts/
    mountOps,     \* mount manager calls so far
    lastMount,    \* the last mount manager call: its result and what it did
    erofsChunks,  \* chunk-index.db, table chunks: hash -> [size, ref_count]
    imageChunks,  \* table image_chunks: rows [image_id, chunk_hash, chunk_order]
    imageRows,    \* table images: image_id -> [total_size, chunk_count]
    recorded,     \* per image: the hashes recorded since its last removal, in order
    erofsChunkFiles, \* the names of the files under <root>/erofs-chunks/
    imageFiles,   \* the ids with a file <root>/images/<id>.erofs
    digestFiles,  \* the digests with a file <root>/digests/<xx>/<digest>
    layerMetadata, \* <root>/metadata/<layerID>.json: layerID -> [Digest, Parent]
    processed,    \* the archive digests of the ProcessLayer calls that succeeded
    layerOps,     \* chunk indexer and layer processor calls so far
    lastLayer,    \* the last chunk indexer or layer processor call, with its pre-state
    snapshots,    \* metadata store: key -> [ID, Kind, Parent, Usage]
    snapDirs,     \* the ids with a directory <root>/snapshots/<id>
    snapActiveMounts, \* Snapshotter.activeMounts: the keys mapped to true
    nextID,       \* ids handed out by the metadata store so far
    txOpen,       \* a metadata write transaction was left open
    mountedIDs,   \* the snapshots Mounts has been called for while they existed
    snapOps,      \* snapshotter calls so far
    lastSnap,     \* the last snapshotter call: its result and its pre-state
    race,         \* a Commit and a Remove of one key in flight together
    chunker,      \* the last two byte streams chunked, with the chunk lists returned
    chunkContent, \* <root>/erofs-chunks/ byte by byte: file name -> content
    bld,          \* per goroutine: where it is inside Builder.deduplicateFile
    bldOps,       \* deduplicateFile calls begun and crashes so far
    cacheNames,   \* <root>/lazy-cache/: file name -> inode
    cacheInodes,  \* the inodes of <root>/lazy-cache/: inode -> content
    loadedChunks, \* LazyLoader.loadedChunks: the digests mapped to true
    ld,           \* per goroutine: where it is inside LazyLoader.loadChunk
    ldOps,        \* loadChunk calls begun and crashes so far
    downloadQueue, \* DedupDaemon.downloadQueue: the tasks buffered in the channel
    queueClosed,  \* close(d.downloadQueue) has run
    ctxDone,      \* d.cancel() has run
    volObjects,   \* Volume.Objects: key -> [Size, Complete, written, cmds]
    dw,           \* per download worker: where it is, its task and the data fetched
    enqCalls,     \* EnqueueDownload calls so far
    accepted,     \* the ids of the tasks sent on the channel, in order
    taken,        \* the ids of the tasks received from the channel, in order
    lastTask,     \* the task that ended last: [id, key, worker, outcome]
    lastEnqueue,  \* the last EnqueueDownload call and how it ended
    activeJobs,   \* Prefetcher.activeJobs: image id -> job
    jobs,         \* the PrefetchJobs made so far, each with its goroutine
    lastPrefetch, \* the last StartPrefetch, StopPrefetch or Stop call
    shutdown,     \* DedupDaemon.Shutdown: where it is and what it has closed
    lockers,      \* the callers of the object cache: their method and position in it
    mutexes,      \* d.mu, b.mu, v.mu and o.mu; p.mu and job.mu
    lc,           \* the callers of LazyLoader.LoadChunk: position, RLocks and RUnlocks
    loaderReaders \* the read locks held on LazyLoader.mu

storeVars == <<chunks, files, chunkFiles, dbFile, lockFile, walFile, corrupt, open,
               pc, cur, calls, ret, written, adjusts, faulted, restarts, last, lastExit, boot>>
mountVars == <<activeMounts, kernelMounts, loopDevs, mountDirs, mountOps, lastMount>>
layerVars == <<erofsChunks, imageChunks, imageRows, recorded, erofsChunkFiles, imageFiles,
               digestFiles, layerMetadata, processed, layerOps, lastLayer>>
snapVars == <<snapshots, snapDirs, snapActiveMounts, nextID, txOpen, mountedIDs, snapOps,
              lastSnap>>
builderVars == <<chunker, chunkContent, bld, bldOps>>
loaderVars == <<cacheNames, cacheInodes, loadedChunks, ld, ldOps>>
daemonVars == <<downloadQueue, queueClosed, ctxDone, volObjects, dw, enqCalls, accepted,
                taken, lastTask, lastEnqueue>>
prefetchVars == <<activeJobs, jobs, lastPrefetch>>
shutdownVars == <<shutdown>>
lockVars == <<lockers, mutexes>>
loadChunkVars == <<lc, loaderReaders>>
bgVars == <<builderVars, loaderVars, daemonVars, prefetchVars, shutdownVars, lockVars,
           loadChunkVars>>
restVars == <<layerVars, snapVars, race, bgVars>>
vars == <<storeVars, mountVars, restVars>>

----------------------------------------------------------------------------
(* Digests and comma separated lists *)

\* sha256 + hex.EncodeToString: injective on the blocks of the model; a digest is a
\* non-empty string of hex characters.
Sha256Hex(block) == IF block = "A" THEN <<"a">> ELSE <<"b">>

Digests == {Sha256Hex(b) : b \in Blocks}

\* All streams of at most n blocks.
RECURSIVE SeqsUpTo(_, _)
SeqsUpTo(S, n) ==
    IF n = 0 THEN {<< >>}
    ELSE LET shorter == SeqsUpTo(S, n - 1)
         IN  shorter \cup {Append(s, x) : s \in {t \in shorter : Len(t) = n - 1}, x \in S}

Streams == SeqsUpTo(Blocks, MaxLen)

\* DedupStore.chunkData on a stream given as its chunk-sized blocks: one ChunkInfo
\* per block, in order.
chunkData(data) == [i \in 1..Len(data) |-> [Hash |-> Sha256Hex(data[i]), Size |-> ChunkSize]]

\* parseChunkHashes: split at ',', dropping empty pieces.  Indices are 0-based as in
\* the code; SubSeq is 1-based and inclusive.
RECURSIVE parseLoop(_, _, _, _)
parseLoop(s, i, start, result) ==
    IF i < Len(s)
    THEN IF s[i + 1] = ","
         THEN parseLoop(s, i + 1, i + 1,
                        IF i > start THEN Append(result, SubSeq(s, start + 1, i)) ELSE result)
         ELSE parseLoop(s, i + 1, start, result)
    ELSE IF start < Len(s) THEN Append(result, SubSeq(s, start + 1, Len(s))) ELSE result

parseChunkHashes(s) == IF s = << >> THEN << >> ELSE parseLoop(s, 0, 0, << >>)

\* The number of indices of sequence q holding x.
Count(q, x) == Cardinality({i \in 1..Len(q) : q[i] = x})

RECURSIVE SumOver(_, _)
SumOver(S, f) ==
    IF S = {} THEN 0
    ELSE LET x == CHOOSE y \in S : TRUE IN f[x] + SumOver(S \ {x}, f)

\* Occurrences of digest d over the chunk lists of all rows of a files table.
Occurrences(tbl, d) ==
    SumOver(DOMAIN tbl, [p \in DOMAIN tbl |-> Count(parseChunkHashes(tbl[p]), d)])

----------------------------------------------------------------------------
(* SQL statements of the index *)

\* INSERT OR IGNORE INTO chunks (hash, size): ref_count takes the schema's DEFAULT 1.
InsertOrIgnoreChunk(tbl, hash, size) ==
    IF hash \in DOMAIN tbl THEN tbl
    ELSE tbl @@ (hash :> [size |-> size, ref_count |-> 1])

\* UPDATE chunks SET ref_count = ref_count + delta WHERE hash = ?
AddRefCount(tbl, hash, delta) ==
    IF hash \in DOMAIN tbl THEN [tbl EXCEPT ![hash].ref_count = @ + delta] ELSE tbl

\* UPDATE chunks SET ref_count = ? WHERE hash = ?
SetRefCount(tbl, hash, count) ==
    IF hash \in DOMAIN tbl THEN [tbl EXCEPT ![hash].ref_count = count] ELSE tbl

\* INSERT OR REPLACE INTO files (path, chunks)
InsertOrReplaceFile(tbl, path, chunkHashes) ==
    [p \in DOMAIN tbl \cup {path} |-> IF p = path THEN chunkHashes ELSE tbl[p]]

\* The loop of IndexFile over chunks[idx..]: the chunks table and the string built.
RECURSIVE indexLoop(_, _, _, _)
indexLoop(cs, idx, tbl, chunkHashes) ==
    IF idx > Len(cs) THEN [tbl |-> tbl, chunkHashes |-> chunkHashes]
    ELSE indexLoop(cs, idx + 1,
                   AddRefCount(InsertOrIgnoreChunk(tbl, cs[idx].Hash, cs[idx].Size),
                               cs[idx].Hash, 1),
                   (IF idx > 1 THEN chunkHashes \o <<",">> ELSE chunkHashes) \o cs[idx].Hash)

RefCountOf(tbl, d) == IF d \in DOMAIN tbl THEN tbl[d].ref_count ELSE 0

Hashes(cs) == [i \in 1..Len(cs) |-> cs[i].Hash]

\* IndexDB.IndexFile under its lock and transaction.  fail: one of Begin, Exec or
\* Commit returns an error and the deferred Rollback undoes the transaction.
IndexFile(path, cs, fail) ==
    LET r == indexLoop(cs, 1, chunks, << >>)
    IN  /\ chunks' = IF fail THEN chunks ELSE r.tbl
        /\ files' = IF fail THEN files ELSE InsertOrReplaceFile(files, path, r.chunkHashes)
        /\ last' = [op |-> "IndexFile", path |-> path, hashes |-> Hashes(cs),
                    ok |-> ~fail, before |-> chunks, filesBefore |-> files]
        /\ faulted' = (faulted \/ fail)

\* IndexDB.IncrementRefCount / DecrementRefCount: one UPDATE under the lock.
RefCountUpdate(hash, delta, name) ==
    /\ chunks' = AddRefCount(chunks, hash, delta)
    /\ last' = [op |-> name, path |-> "", hashes |-> <<hash>>,
                ok |-> TRUE, before |-> chunks, filesBefore |-> files]

----------------------------------------------------------------------------
(* Initial state: a store just constructed on an empty root *)

NoCall == [path |-> "", chunks |-> << >>, k |-> 0]
NoRet == [path |-> "", hashes |-> << >>, ok |-> TRUE, fault |-> FALSE]
Images == {"img1", "img2"}

StoreInit ==
    /\ chunks = << >>
    /\ files = << >>
    /\ chunkFiles = {}
    /\ dbFile = TRUE
    /\ lockFile = TRUE
    /\ walFile = TRUE
    /\ corrupt = FALSE
    /\ open = TRUE
    /\ pc = [w \in Writers |-> "idle"]
    /\ cur = [w \in Writers |-> NoCall]
    /\ calls = 0
    /\ ret = [w \in Writers |-> NoRet]
    /\ written = {}
    /\ adjusts = 0
    /\ faulted = FALSE
    /\ restarts = 0
    /\ last = [op |-> "none", path |-> "", hashes |-> << >>, ok |-> TRUE,
               before |-> << >>, filesBefore |-> << >>]
    /\ lastExit = "none"
    /\ boot = [recovered |-> FALSE, rebuilt |-> FALSE, ok |-> TRUE]

MountInit ==
    /\ activeMounts = << >>
    /\ kernelMounts = [i \in Images |-> 0]
    /\ loopDevs = [i \in Images |-> 0]
    /\ mountDirs = {}
    /\ mountOps = 0
    /\ lastMount = [op |-> "none", image |-> "", ok |-> TRUE, existed |-> FALSE,
                    refBefore |-> 0, path |-> << >>, attaches |-> 0, mounts |-> 0]

NoIndex == [chunks |-> << >>, imageChunks |-> {}, images |-> << >>]

LayerInit ==
    /\ erofsChunks = << >>
    /\ imageChunks = {}
    /\ imageRows = << >>
    /\ recorded = [i \in Images |-> << >>]
    /\ erofsChunkFiles = {}
    /\ imageFiles = {}
    /\ digestFiles = {}
    /\ layerMetadata = << >>
    /\ processed = {}
    /\ layerOps = 0
    /\ lastLayer = [op |-> "none", image |-> "", digest |-> << >>, ok |-> TRUE,
                    seen |-> FALSE, before |-> NoIndex]

Goroutines == {"g1", "g2"}

NoBuild == [pc |-> "idle", file |-> << >>, offset |-> 0, n |-> 0, eof |-> FALSE,
            chunks |-> << >>, out |-> << >>]

BuilderInit ==
    /\ chunker = [in |-> << >>, data |-> << >>, file |-> << >>]
    /\ chunkContent = << >>
    /\ bld = [g \in Goroutines |-> NoBuild]
    /\ bldOps = 0

NoLoad == [pc |-> "idle", hash |-> << >>, fd |-> 0, off |-> 0]

LoaderInit ==
    /\ cacheNames = << >>
    /\ cacheInodes = << >>
    /\ loadedChunks = {}
    /\ ld = [g \in Goroutines |-> NoLoad]
    /\ ldOps = 0

DownloadWorkers == {"d1", "d2"}

NoTask == [id |-> 0, key |-> "", size |-> 0]

IdleWorker == [pc |-> "idle", task |-> NoTask, len |-> 0]

\* NewDedupDaemon: an empty queue, a live context and the workers started.
DaemonInit ==
    /\ downloadQueue = << >>
    /\ queueClosed = FALSE
    /\ ctxDone = FALSE
    /\ volObjects = << >>
    /\ dw = [w \in DownloadWorkers |-> IdleWorker]
    /\ enqCalls = 0
    /\ accepted = << >>
    /\ taken = << >>
    /\ lastTask = [id |-> 0, key |-> "", worker |-> "", outcome |-> "none"]
    /\ lastEnqueue = [id |-> 0, outcome |-> "none", ready |-> {}]

NoChunkCall == [pc |-> "idle", hash |-> << >>, rlocks |-> 0, runlocks |-> 0]

\* No LoadChunk call yet and LazyLoader.mu free.
LoadChunkInit ==
    /\ lc = [g \in Goroutines |-> NoChunkCall]
    /\ loaderReaders = 0

LockThreads == {"t1", "t2", "t3"}

MutexNames == {"d", "b", "v", "o", "p", "j"}

IdleLocker == [op |-> "idle", pc |-> 0, st |-> "run"]

FreeMutex == [writer |-> "none", readers |-> EmptyBag, rwait |-> {}]

\* No caller is inside a method and every lock is free.
LockInit ==
    /\ lockers = [t \in LockThreads |-> IdleLocker]
    /\ mutexes = [m \in MutexNames |-> FreeMutex]

\* No Shutdown yet: every descriptor of the cache is open.
ShutdownInit == shutdown = [pc |-> "running", closed |-> << >>, live |-> {}]

\* NewPrefetcher
PrefetcherInit ==
    /\ activeJobs = << >>
    /\ jobs = << >>
    /\ lastPrefetch = [op |-> "none", image |-> "", err |-> FALSE, before |-> << >>]

NoSnapState == [snapshots |-> << >>, snapDirs |-> {}, mounts |-> << >>, marks |-> {}]

SnapInit ==
    /\ snapshots = << >>
    /\ snapDirs = {}
    /\ snapActiveMounts = {}
    /\ nextID = 0
    /\ txOpen = FALSE
    /\ mountedIDs = {}
    /\ snapOps = 0
    /\ lastSnap = [op |-> "none", key |-> "", name |-> "", id |-> "", err |-> "",
                   usage |-> 0, before |-> NoSnapState]
    /\ race = [phase |-> "idle", key |-> "", name |-> "", id |-> "", marked |-> FALSE,
               nameUsed |-> FALSE, intact |-> FALSE, commit |-> "", commitErr |-> "",
               remove |-> "", removeErr |-> "", fault |-> FALSE]

Init ==
    StoreInit /\ MountInit /\ LayerInit /\ SnapInit /\ BuilderInit /\ LoaderInit
    /\ DaemonInit /\ PrefetcherInit /\ ShutdownInit /\ LockInit /\ LoadChunkInit

----------------------------------------------------------------------------
(* DedupStore.WriteFile, one step per lock acquisition *)

lifeVars == <<dbFile, lockFile, walFile, corrupt, open, restarts, lastExit, boot>>

\* WriteFile entered: chunkData has cut the stream.
WriteFileBegin(w, path, data) ==
    /\ open
    /\ pc[w] = "idle"
    /\ calls < MaxCalls
    /\ pc' = [pc EXCEPT ![w] = "store"]
    /\ cur' = [cur EXCEPT ![w] = [path |-> path, chunks |-> chunkData(data), k |-> 1]]
    /\ calls' = calls + 1
    /\ UNCHANGED <<chunks, files, chunkFiles, ret, written, adjusts, faulted, last, lifeVars, mountVars, restVars>>

\* storeChunk on the next chunk: only when a file of that name exists under chunks/
\* is IncrementRefCount called; nothing is ever written.  err: the UPDATE fails and
\* WriteFile returns the error.
StoreChunk(w, err) ==
    /\ open
    /\ pc[w] = "store"
    /\ cur[w].k <= Len(cur[w].chunks)
    /\ LET chunk == cur[w].chunks[cur[w].k]
       IN  IF chunk.Hash \in chunkFiles
           THEN IF err
                THEN /\ pc' = [pc EXCEPT ![w] = "idle"]
                     /\ cur' = [cur EXCEPT ![w] = NoCall]
                     /\ ret' = [ret EXCEPT ![w] = [path |-> cur[w].path,
                                  hashes |-> Hashes(cur[w].chunks), ok |-> FALSE, fault |-> TRUE]]
                     /\ faulted' = TRUE
                     /\ UNCHANGED <<chunks, last>>
                ELSE /\ RefCountUpdate(chunk.Hash, 1, "IncrementRefCount")
                     /\ cur' = [cur EXCEPT ![w].k = @ + 1]
                     /\ UNCHANGED <<pc, ret, faulted>>
           ELSE /\ err = FALSE
                /\ cur' = [cur EXCEPT ![w].k = @ + 1]
                /\ UNCHANGED <<chunks, last, pc, ret, faulted>>
    /\ UNCHANGED <<files, chunkFiles, calls, written, adjusts, lifeVars, mountVars, restVars>>

\* The last statement of WriteFile: return d.indexDB.IndexFile(path, chunks).
WriteFileIndex(w, fail) ==
    /\ open
    /\ pc[w] = "store"
    /\ cur[w].k > Len(cur[w].chunks)
    /\ IndexFile(cur[w].path, cur[w].chunks, fail)
    /\ pc' = [pc EXCEPT ![w] = "idle"]
    /\ cur' = [cur EXCEPT ![w] = NoCall]
    /\ ret' = [ret EXCEPT ![w] = [path |-> cur[w].path, hashes |-> Hashes(cur[w].chunks),
                                  ok |-> ~fail, fault |-> fail]]
    /\ written' = IF fail THEN written
                  ELSE written \cup {cur[w].chunks[i].Hash : i \in 1..Len(cur[w].chunks)}
    /\ UNCHANGED <<chunkFiles, calls, adjusts, lifeVars, mountVars, restVars>>

\* IndexDB.IndexFile called directly.
IndexFileCall(path, data, fail) ==
    /\ open
    /\ calls < MaxCalls
    /\ IndexFile(path, chunkData(data), fail)
    /\ calls' = calls + 1
    /\ UNCHANGED <<chunkFiles, pc, cur, ret, written, adjusts, lifeVars, mountVars, restVars>>

IncrementRefCount(hash) ==
    /\ open
    /\ adjusts < MaxAdjusts
    /\ RefCountUpdate(hash, 1, "IncrementRefCount")
    /\ adjusts' = adjusts + 1
    /\ UNCHANGED <<files, chunkFiles, pc, cur, calls, ret, written, faulted, lifeVars, mountVars, restVars>>

DecrementRefCount(hash) ==
    /\ open
    /\ adjusts < MaxAdjusts
    /\ RefCountUpdate(hash, -1, "DecrementRefCount")
    /\ adjusts' = adjusts + 1
    /\ UNCHANGED <<files, chunkFiles, pc, cur, calls, ret, written, faulted, lifeVars, mountVars, restVars>>

WriteStep ==
    \/ \E w \in Writers, path \in Paths, data \in Streams : WriteFileBegin(w, path, data)
    \/ \E w \in Writers, err \in BOOLEAN : StoreChunk(w, err)
    \/ \E w \in Writers, fail \in BOOLEAN : WriteFileIndex(w, fail)
    \/ \E path \in Paths, data \in Streams, fail \in BOOLEAN : IndexFileCall(path, data, fail)

SpecWrite == Init /\ [][WriteStep]_vars

----------------------------------------------------------------------------
(* NewIndexDB, its recovery and rebuild, and the ways a store ends *)

\* checkAndRecover: TRUE when it returns an error (stale lock, or a WAL file next to
\* an existing database).
checkAndRecover(lock, db, wal) ==
    IF lock THEN TRUE
    ELSE IF ~db THEN FALSE
    ELSE wal

\* The map rebuild() fills from the files rows: refCounts[hash]++ for every hash of
\* every row whose chunks column is not empty.
RECURSIVE countHashes(_, _, _)
countHashes(hs, idx, refCounts) ==
    IF idx > Len(hs) THEN refCounts
    ELSE countHashes(hs, idx + 1,
                     IF hs[idx] \in DOMAIN refCounts
                     THEN [refCounts EXCEPT ![hs[idx]] = @ + 1]
                     ELSE refCounts @@ (hs[idx] :> 1))

RECURSIVE scanFiles(_, _, _)
scanFiles(fls, rows, refCounts) ==
    IF rows = {} THEN refCounts
    ELSE LET path == CHOOSE p \in rows : TRUE
         IN  scanFiles(fls, rows \ {path},
                       IF fls[path] = << >> THEN refCounts
                       ELSE countHashes(parseChunkHashes(fls[path]), 1, refCounts))

RECURSIVE applyCounts(_, _, _)
applyCounts(tbl, refCounts, todo) ==
    IF todo = {} THEN tbl
    ELSE LET hash == CHOOSE h \in todo : TRUE
         IN  applyCounts(SetRefCount(tbl, hash, refCounts[hash]), refCounts, todo \ {hash})

\* IndexDB.rebuild: DELETE FROM chunks WHERE ref_count <= 0, then one UPDATE per hash
\* counted in the files rows.
rebuild(tbl, fls) ==
    LET kept == [h \in {x \in DOMAIN tbl : ~(tbl[x].ref_count <= 0)} |-> tbl[h]]
        refCounts == scanFiles(fls, DOMAIN fls, << >>)
    IN  applyCounts(kept, refCounts, DOMAIN refCounts)

Booted(recovered, rebuilt, ok) == [recovered |-> recovered, rebuilt |-> rebuilt, ok |-> ok]

callVars == <<pc, cur, calls, ret, written, adjusts, faulted>>

\* NewDedupStore -> NewIndexDB on the files a previous store left.  vacuumRepairs:
\* whether the VACUUM that ends rebuild leaves a database that passes the integrity
\* check.
NewDedupStore(vacuumRepairs) ==
    /\ ~open
    /\ LET stale == checkAndRecover(lockFile, dbFile, walFile)
       IN  IF stale /\ corrupt
           THEN \* recoverDatabase: "database corrupted" -> "database recovery failed"
                /\ boot' = Booted(TRUE, FALSE, FALSE)
                /\ dbFile' = TRUE
                /\ UNCHANGED <<chunks, files, lockFile, walFile, corrupt, open, last>>
           ELSE \* recoverDatabase (if stale) checkpoints and closes; then Open, init,
                \* createLockFile, verifyIntegrity and, if that fails, rebuild
                /\ dbFile' = TRUE
                /\ walFile' = TRUE
                /\ lockFile' = TRUE
                /\ open' = TRUE
                /\ chunks' = IF corrupt THEN rebuild(chunks, files) ELSE chunks
                /\ corrupt' = IF corrupt THEN ~vacuumRepairs ELSE FALSE
                /\ boot' = Booted(stale, corrupt, TRUE)
                /\ last' = [op |-> "NewIndexDB", path |-> "", hashes |-> << >>,
                            ok |-> TRUE, before |-> chunks, filesBefore |-> files]
                /\ UNCHANGED files
    /\ UNCHANGED <<chunkFiles, callVars, restarts, lastExit, mountVars, restVars>>

Idle == \A w \in Writers : pc[w] = "idle"

\* DedupStore.Close (builder, mounts, loaders, daemon, memory deduplicator) or
\* Snapshotter.Close (the metadata store): neither closes the IndexDB.
StoreClose(via) ==
    /\ open
    /\ Idle
    /\ restarts < MaxRestarts
    /\ open' = FALSE
    /\ lastExit' = via
    /\ restarts' = restarts + 1
    /\ UNCHANGED <<chunks, files, chunkFiles, dbFile, lockFile, walFile, corrupt,
                   callVars, last, boot, mountVars, restVars>>

\* IndexDB.Close: removes the lock file and closes the database, which checkpoints
\* and deletes the WAL.
IndexDBClose ==
    /\ open
    /\ Idle
    /\ restarts < MaxRestarts
    /\ lockFile' = FALSE
    /\ walFile' = FALSE
    /\ open' = FALSE
    /\ lastExit' = "IndexDB.Close"
    /\ restarts' = restarts + 1
    /\ UNCHANGED <<chunks, files, chunkFiles, dbFile, corrupt, callVars, last, boot, mountVars, restVars>>

\* The process is killed.  Calls in progress never return; an IndexFile transaction
\* that had not committed is not in the database.
Crash ==
    /\ open
    /\ restarts < MaxRestarts
    /\ open' = FALSE
    /\ lastExit' = IF Idle THEN "crash" ELSE "crash in WriteFile"
    /\ pc' = [w \in Writers |-> "idle"]
    /\ cur' = [w \in Writers |-> NoCall]
    /\ restarts' = restarts + 1
    /\ UNCHANGED <<chunks, files, chunkFiles, dbFile, lockFile, walFile, corrupt,
                   calls, ret, written, adjusts, faulted, last, boot, mountVars, restVars>>

\* The database file is damaged while no store has it open.
DiskCorruption ==
    /\ ~open
    /\ ~corrupt
    /\ restarts < MaxRestarts
    /\ corrupt' = TRUE
    /\ restarts' = restarts + 1
    /\ UNCHANGED <<chunks, files, chunkFiles, dbFile, lockFile, walFile, open,
                   callVars, last, lastExit, boot, mountVars, restVars>>

LifeStep ==
    \/ \E vacuumRepairs \in BOOLEAN : NewDedupStore(vacuumRepairs)
    \/ \E via \in {"DedupStore.Close", "Snapshotter.Close"} : StoreClose(via)
    \/ IndexDBClose
    \/ Crash
    \/ DiskCorruption

AdjustStep ==
    \/ \E hash \in Digests : IncrementRefCount(hash)
    \/ \E hash \in Digests : DecrementRefCount(hash)

\* The store over its life: writers, shutdowns, crashes and reopenings.
Next == WriteStep \/ LifeStep

Spec == Init /\ [][Next]_vars

\* The index API alone, on an open store.
IndexStep ==
    \/ \E path \in Paths, data \in Streams, fail \in BOOLEAN : IndexFileCall(path, data, fail)
    \/ AdjustStep

SpecIndex == Init /\ [][IndexStep]_vars

----------------------------------------------------------------------------
(* MountManager *)

\* filepath.Join(m.mountsDir, imageID)
MountPathOf(imageID) == <<"mounts", imageID>>

MountResult(op, imageID, ok, path, attaches, mounts) ==
    [op |-> op, image |-> imageID, ok |-> ok,
     existed |-> imageID \in DOMAIN activeMounts,
     refBefore |-> IF imageID \in DOMAIN activeMounts THEN activeMounts[imageID].RefCount ELSE 0,
     path |-> path, attaches |-> attaches, mounts |-> mounts]

\* The branch both mount calls start with: a record exists, so its RefCount grows
\* and its MountPath is returned.
ReuseMount(op, imageID) ==
    /\ activeMounts' = [activeMounts EXCEPT ![imageID].RefCount = @ + 1]
    /\ lastMount' = MountResult(op, imageID, TRUE, activeMounts[imageID].MountPath, 0, 0)
    /\ UNCHANGED <<kernelMounts, loopDevs, mountDirs>>

\* MountManager.MountErofs.  mkdirOk, attachOk, mountOk, detachOk: the results of
\* MkdirAll, losetup -f, mount -t erofs and (after a failed mount) losetup -d.
MountErofs(imageID, mkdirOk, attachOk, mountOk, detachOk) ==
    /\ mountOps < MaxMountOps
    /\ mountOps' = mountOps + 1
    /\ IF imageID \in DOMAIN activeMounts
       THEN ReuseMount("MountErofs", imageID)
       ELSE IF ~mkdirOk
       THEN /\ lastMount' = MountResult("MountErofs", imageID, FALSE, << >>, 0, 0)
            /\ UNCHANGED <<activeMounts, kernelMounts, loopDevs, mountDirs>>
       ELSE IF ~attachOk
       THEN /\ mountDirs' = mountDirs \cup {imageID}
            /\ lastMount' = MountResult("MountErofs", imageID, FALSE, << >>, 0, 0)
            /\ UNCHANGED <<activeMounts, kernelMounts, loopDevs>>
       ELSE IF ~mountOk
       THEN /\ mountDirs' = mountDirs \cup {imageID}
            /\ loopDevs' = IF detachOk THEN loopDevs
                           ELSE [loopDevs EXCEPT ![imageID] = @ + 1]
            /\ lastMount' = MountResult("MountErofs", imageID, FALSE, << >>, 1, 0)
            /\ UNCHANGED <<activeMounts, kernelMounts>>
       ELSE /\ mountDirs' = mountDirs \cup {imageID}
            /\ loopDevs' = [loopDevs EXCEPT ![imageID] = @ + 1]
            /\ kernelMounts' = [kernelMounts EXCEPT ![imageID] = @ + 1]
            /\ activeMounts' = activeMounts @@
                   (imageID :> [ID |-> imageID, MountPath |-> MountPathOf(imageID),
                                LoopDevice |-> "loop", RefCount |-> 1])
            /\ lastMount' = MountResult("MountErofs", imageID, TRUE, MountPathOf(imageID), 1, 1)
    /\ UNCHANGED <<storeVars, restVars>>

\* MountManager.MountErofsWithFscache: no loop device, the image is named by fsid.
MountErofsWithFscache(imageID, mkdirOk, mountOk) ==
    /\ mountOps < MaxMountOps
    /\ mountOps' = mountOps + 1
    /\ IF imageID \in DOMAIN activeMounts
       THEN ReuseMount("MountErofsWithFscache", imageID)
       ELSE IF ~mkdirOk
       THEN /\ lastMount' = MountResult("MountErofsWithFscache", imageID, FALSE, << >>, 0, 0)
            /\ UNCHANGED <<activeMounts, kernelMounts, loopDevs, mountDirs>>
       ELSE IF ~mountOk
       THEN /\ mountDirs' = mountDirs \cup {imageID}
            /\ lastMount' = MountResult("MountErofsWithFscache", imageID, FALSE, << >>, 0, 0)
            /\ UNCHANGED <<activeMounts, kernelMounts, loopDevs>>
       ELSE /\ mountDirs' = mountDirs \cup {imageID}
            /\ kernelMounts' = [kernelMounts EXCEPT ![imageID] = @ + 1]
            /\ activeMounts' = activeMounts @@
                   (imageID :> [ID |-> imageID, MountPath |-> MountPathOf(imageID),
                                LoopDevice |-> "", RefCount |-> 1])
            /\ lastMount' = MountResult("MountErofsWithFscache", imageID, TRUE,
                                        MountPathOf(imageID), 0, 1)
            /\ UNCHANGED loopDevs
    /\ UNCHANGED <<storeVars, restVars>>

\* A delete that leaves the map as it is.
KeepEntry(f, x) == f

\* delete(m.activeMounts, imageID)
Without(f, x) == [y \in DOMAIN f \ {x} |-> f[y]]

\* losetup -d mp.LoopDevice: fails on the empty name of an fscache mount.
Detached(mp, detachOk) == detachOk /\ mp.LoopDevice # ""

\* MountManager.Unmount.  umountOk, detachOk: the results of umount and losetup -d;
\* umount cannot succeed where nothing is mounted.
Unmount(imageID, umountOk, detachOk) ==
    /\ mountOps < MaxMountOps
    /\ mountOps' = mountOps + 1
    /\ umountOk => kernelMounts[imageID] > 0
    /\ IF imageID \notin DOMAIN activeMounts
       THEN /\ lastMount' = MountResult("Unmount", imageID, FALSE, << >>, 0, 0)
            /\ UNCHANGED <<activeMounts, kernelMounts, loopDevs, mountDirs>>
       ELSE LET mp == activeMounts[imageID]
            IN  IF mp.RefCount - 1 > 0
                THEN /\ activeMounts' = [activeMounts EXCEPT ![imageID].RefCount = @ - 1]
                     /\ lastMount' = MountResult("Unmount", imageID, TRUE, << >>, 0, 0)
                     /\ UNCHANGED <<kernelMounts, loopDevs, mountDirs>>
                ELSE IF ~umountOk
                THEN /\ activeMounts' = [activeMounts EXCEPT ![imageID].RefCount = @ - 1]
                     /\ lastMount' = MountResult("Unmount", imageID, FALSE, << >>, 0, 0)
                     /\ UNCHANGED <<kernelMounts, loopDevs, mountDirs>>
                ELSE /\ kernelMounts' = [kernelMounts EXCEPT ![imageID] = @ - 1]
                     /\ loopDevs' = IF Detached(mp, detachOk)
                                    THEN [loopDevs EXCEPT ![imageID] = @ - 1]
                                    ELSE loopDevs
                     /\ activeMounts' = Without(activeMounts, imageID)
                     /\ mountDirs' = mountDirs \ {imageID}
                     /\ lastMount' = MountResult("Unmount", imageID, TRUE, << >>,
                                                 IF Detached(mp, detachOk) THEN -1 ELSE 0, -1)
    /\ UNCHANGED <<storeVars, restVars>>

\* MountManager.UnmountAll.  umounted, detached: the records whose umount / losetup -d
\* succeeds.  A record whose umount fails is skipped, and the map is emptied all the
\* same.
UnmountAll(umounted, detached) ==
    /\ mountOps < MaxMountOps
    /\ mountOps' = mountOps + 1
    /\ \A i \in umounted : kernelMounts[i] > 0
    /\ \A i \in detached : activeMounts[i].LoopDevice # ""
    /\ kernelMounts' = [i \in Images |-> IF i \in umounted THEN kernelMounts[i] - 1
                                         ELSE kernelMounts[i]]
    /\ loopDevs' = [i \in Images |-> IF i \in detached THEN loopDevs[i] - 1 ELSE loopDevs[i]]
    /\ mountDirs' = mountDirs \ umounted
    /\ activeMounts' = << >>
    /\ lastMount' = [op |-> "UnmountAll", image |-> "",
                     ok |-> (umounted = DOMAIN activeMounts /\ detached = umounted),
                     existed |-> FALSE, refBefore |-> 0, path |-> << >>,
                     attaches |-> 0, mounts |-> 0]
    /\ UNCHANGED <<storeVars, restVars>>

MountStep ==
    \/ \E i \in Images, mkdirOk, attachOk, mountOk, detachOk \in BOOLEAN :
           MountErofs(i, mkdirOk, attachOk, mountOk, detachOk)
    \/ \E i \in Images, mkdirOk, mountOk \in BOOLEAN : MountErofsWithFscache(i, mkdirOk, mountOk)
    \/ \E i \in Images, umountOk, detachOk \in BOOLEAN : Unmount(i, umountOk, detachOk)
    \/ \E umounted \in SUBSET DOMAIN activeMounts :
           \E detached \in SUBSET umounted : UnmountAll(umounted, detached)

SpecMount == Init /\ [][MountStep]_vars

----------------------------------------------------------------------------
(* erofs.ChunkIndexer, erofs.Builder and storage.LayerProcessor *)

MaxLayerOps == 3
MaxIndexOps == 5

\* io.ReadFull fills the whole buffer except at the end of the file: block "B"
\* stands for a short last chunk.
BlockBytes(block) == IF block = "A" THEN ChunkSize ELSE ChunkSize \div 4

\* The large files of a source tree: full chunks, then possibly a short one.
LayerFiles == {d \in Streams : \A i \in 1..(Len(d) - 1) : d[i] = "A"}

\* Builder.chunkFile
chunkFile(data) ==
    [i \in 1..Len(data) |-> [Hash |-> Sha256Hex(data[i]), Size |-> BlockBytes(data[i])]]

Index == [chunks |-> erofsChunks, imageChunks |-> imageChunks, images |-> imageRows]

\* An upsert that starts every row again at ref_count 1.
ResetChunk(tbl, hash, size) ==
    [h \in DOMAIN tbl \cup {hash} |-> IF h = hash THEN [size |-> size, ref_count |-> 1]
                                      ELSE tbl[h]]

\* INSERT INTO chunks (hash, size, ref_count) VALUES (?, ?, 1)
\* ON CONFLICT(hash) DO UPDATE SET ref_count = ref_count + 1
UpsertChunk(tbl, hash, size) ==
    IF hash \in DOMAIN tbl
    THEN [tbl EXCEPT ![hash].ref_count = @ + 1]
    ELSE tbl @@ (hash :> [size |-> size, ref_count |-> 1])

RowsOf(rows, imageID) == {r \in rows : r.image_id = imageID}

\* An order that is always 0.
FirstOrder(rows, imageID) == 0

\* SELECT COALESCE(MAX(chunk_order), -1) + 1 FROM image_chunks WHERE image_id = ?
NextOrder(rows, imageID) ==
    LET orders == {r.chunk_order : r \in RowsOf(rows, imageID)}
    IN  IF orders = {} THEN 0
        ELSE (CHOOSE o \in orders : \A o2 \in orders : o2 <= o) + 1

\* INSERT INTO images (image_id, total_size, chunk_count) VALUES (?, ?, 1)
\* ON CONFLICT(image_id) DO UPDATE SET total_size = total_size + ?,
\*                                     chunk_count = chunk_count + 1
UpsertImage(tbl, imageID, size) ==
    IF imageID \in DOMAIN tbl
    THEN [tbl EXCEPT ![imageID] = [total_size |-> @.total_size + size,
                                   chunk_count |-> @.chunk_count + 1]]
    ELSE tbl @@ (imageID :> [total_size |-> size, chunk_count |-> 1])

\* The transaction of ChunkIndexer.RecordChunk.
RecordChunkTx(ix, imageID, chunkHash, size) ==
    [chunks |-> UpsertChunk(ix.chunks, chunkHash, size),
     imageChunks |-> ix.imageChunks \cup
                     {[image_id |-> imageID, chunk_hash |-> chunkHash,
                       chunk_order |-> NextOrder(ix.imageChunks, imageID)]},
     images |-> UpsertImage(ix.images, imageID, size)]

\* The transaction of ChunkIndexer.RemoveImage: one decrement per distinct hash of
\* the image, rows at ref_count <= 0 deleted, the image's rows deleted.
RemoveImageTx(ix, imageID) ==
    LET hs == {r.chunk_hash : r \in RowsOf(ix.imageChunks, imageID)}
        dec == [h \in DOMAIN ix.chunks |->
                    IF h \in hs THEN [ix.chunks[h] EXCEPT !.ref_count = @ - 1]
                    ELSE ix.chunks[h]]
        kept == {h \in DOMAIN dec : dec[h].ref_count > 0}
    IN  [chunks |-> [h \in kept |-> dec[h]],
         imageChunks |-> ix.imageChunks \ RowsOf(ix.imageChunks, imageID),
         images |-> [i \in DOMAIN ix.images \ {imageID} |-> ix.images[i]]]

\* The loop of Builder.deduplicateFile over the chunks k.. of a file: one RecordChunk
\* transaction per chunk; the call numbered failAt fails and ends the loop.
RECURSIVE recordLoop(_, _, _, _, _)
recordLoop(ix, imageID, cs, k, failAt) ==
    IF k > Len(cs) THEN [ix |-> ix, done |-> Len(cs), ok |-> TRUE]
    ELSE IF k = failAt THEN [ix |-> ix, done |-> k - 1, ok |-> FALSE]
    ELSE recordLoop(RecordChunkTx(ix, imageID, cs[k].Hash, cs[k].Size),
                    imageID, cs, k + 1, failAt)

LayerCall(op, imageID, digest, ok) ==
    [op |-> op, image |-> imageID, digest |-> digest, ok |-> ok,
     seen |-> digest \in processed, before |-> Index]

SetIndex(ix) ==
    /\ erofsChunks' = ix.chunks
    /\ imageChunks' = ix.imageChunks
    /\ imageRows' = ix.images

\* ChunkIndexer.RecordChunk of the chunk holding block.  fail: a statement or the
\* commit fails and the deferred Rollback undoes the transaction.
RecordChunk(imageID, block, fail) ==
    /\ layerOps < MaxIndexOps
    /\ layerOps' = layerOps + 1
    /\ LET c == chunkFile(<<block>>)[1]
       IN  /\ SetIndex(IF fail THEN Index ELSE RecordChunkTx(Index, imageID, c.Hash, c.Size))
           /\ recorded' = IF fail THEN recorded
                          ELSE [recorded EXCEPT ![imageID] = Append(@, c.Hash)]
           /\ lastLayer' = LayerCall("RecordChunk", imageID, c.Hash, ~fail)
    /\ UNCHANGED <<erofsChunkFiles, imageFiles, digestFiles, layerMetadata, processed>>
    /\ UNCHANGED <<storeVars, mountVars, snapVars, race, bgVars>>

\* ChunkIndexer.RemoveImage.  Its only result is an error: it hands no digest back to
\* its caller (erased), and it touches no chunk file.
RemoveImage(imageID, fail) ==
    /\ layerOps < MaxIndexOps
    /\ layerOps' = layerOps + 1
    /\ SetIndex(IF fail THEN Index ELSE RemoveImageTx(Index, imageID))
    /\ recorded' = IF fail THEN recorded ELSE [recorded EXCEPT ![imageID] = << >>]
    /\ lastLayer' = LayerCall("RemoveImage", imageID, << >>, ~fail) @@ [erased |-> {}]
    /\ UNCHANGED <<erofsChunkFiles, imageFiles, digestFiles, layerMetadata, processed>>
    /\ UNCHANGED <<storeVars, mountVars, snapVars, race, bgVars>>

LayerFaults == {"none", "record", "mkfs", "metadata"}

\* The RecordChunk call that fails: the one of the last chunk, or none.
FailAt(data, fault) == IF fault = "record" THEN Len(data) ELSE 0

\* Builder.BuildImage of a source tree whose one large file holds data (none when
\* data is empty): chunkFile writes the chunk files, deduplicateFile records the
\* chunks, mkfs.erofs writes images/<imageID>.erofs.
BuildImage(imageID, data, fault) ==
    LET cs == chunkFile(data)
        res == recordLoop(Index, imageID, cs, 1, FailAt(data, fault))
    IN  /\ erofsChunkFiles' = erofsChunkFiles \cup {cs[i].Hash : i \in 1..Len(cs)}
        /\ SetIndex(res.ix)
        /\ recorded' = [recorded EXCEPT
                            ![imageID] = @ \o [i \in 1..res.done |-> cs[i].Hash]]
        /\ imageFiles' = IF res.ok /\ fault # "mkfs" THEN imageFiles \cup {imageID}
                          ELSE imageFiles

BuildOk(data, fault) == FailAt(data, fault) = 0 /\ fault # "mkfs"

\* DedupStore.BuildErofsImage
BuildErofsImage(imageID, data, fault) ==
    /\ layerOps < MaxLayerOps
    /\ layerOps' = layerOps + 1
    /\ BuildImage(imageID, data, fault)
    /\ lastLayer' = LayerCall("BuildErofsImage", imageID, << >>, BuildOk(data, fault))
    /\ UNCHANGED <<digestFiles, layerMetadata, processed>>
    /\ UNCHANGED <<storeVars, mountVars, snapVars, race, bgVars>>

\* saveLayerToTemp: the sha256 of the archive bytes, injective on the archives of
\* the model.
ArchiveDigest(data) == <<"sha256">> \o data

\* A test that finds every digest processed that some call has succeeded on.
SeenBefore(digest) == digest \in processed

\* LayerProcessor.isLayerProcessed: stat <root>/digests/<digest[:2]>/<digest>
isLayerProcessed(digest) == digest \in digestFiles

\* LayerProcessor.ProcessLayer of the archive holding data.  fault: the step that
\* fails (the last RecordChunk, mkfs.erofs, saveLayerMetadata) or none.
ProcessLayer(layerID, data, parent, fault) ==
    /\ layerOps < MaxLayerOps
    /\ layerOps' = layerOps + 1
    /\ LET digest == ArchiveDigest(data)
           ok == BuildOk(data, fault) /\ fault # "metadata"
       IN  IF isLayerProcessed(digest)
           THEN /\ lastLayer' = LayerCall("ProcessLayer", layerID, digest, TRUE)
                /\ UNCHANGED <<erofsChunks, imageChunks, imageRows, recorded,
                               erofsChunkFiles, imageFiles, layerMetadata, processed>>
           ELSE /\ BuildImage(layerID, data, fault)
                /\ layerMetadata' =
                       IF ok
                       THEN [l \in DOMAIN layerMetadata \cup {layerID} |->
                                IF l = layerID THEN [Digest |-> digest, Parent |-> parent]
                                ELSE layerMetadata[l]]
                       ELSE layerMetadata
                /\ processed' = IF ok THEN processed \cup {digest} ELSE processed
                /\ lastLayer' = LayerCall("ProcessLayer", layerID, digest, ok)
    /\ UNCHANGED digestFiles
    /\ UNCHANGED <<storeVars, mountVars, snapVars, race, bgVars>>

LayerStep ==
    \/ \E i \in Images, d \in LayerFiles, fault \in LayerFaults \ {"metadata"} :
           BuildErofsImage(i, d, fault)
    \/ \E i \in Images, d \in LayerFiles, fault \in LayerFaults :
           \E par \in {""} \cup (Images \ {i}) : ProcessLayer(i, d, par, fault)

SpecLayer == Init /\ [][LayerStep]_vars

IndexerStep ==
    \/ \E i \in Images, b \in Blocks, fail \in BOOLEAN : RecordChunk(i, b, fail)
    \/ \E i \in Images, fail \in BOOLEAN : RemoveImage(i, fail)

SpecIndexer == Init /\ [][IndexerStep]_vars

----------------------------------------------------------------------------
(* snapshotter.Snapshotter over the containerd metadata store and DedupStore *)

MaxSnapOps == 4

Keys == {"k1", "k2"}

\* The ids the metadata store hands out, in order (the bucket's NextSequence).
IDs == <<"img1", "img2">>

\* The sizes DiskUsage can find under a snapshot directory.
Usages == {1, 2}

\* storage.Snapshot.ParentIDs: the ids up the parent chain, nearest first.
RECURSIVE ParentIDs(_, _)
ParentIDs(rows, parent) ==
    IF parent = "" \/ parent \notin DOMAIN rows THEN << >>
    ELSE <<rows[parent].ID>> \o ParentIDs(rows, rows[parent].Parent)

\* storage.CreateSnapshot: the error it returns, "" for none.
CreateSnapshotErr(rows, key, parent) ==
    IF parent # "" /\ parent \notin DOMAIN rows THEN "NotFound"
    ELSE IF parent # "" /\ rows[parent].Kind # "Committed" THEN "InvalidArgument"
    ELSE IF key \in DOMAIN rows THEN "AlreadyExists"
    ELSE ""

\* storage.CreateSnapshot: the row it adds.
CreateSnapshot(rows, kind, key, parent, id) ==
    rows @@ (key :> [ID |-> id, Kind |-> kind, Parent |-> parent, Usage |-> 0])

\* storage.CommitActive: the error it returns, "" for none.
CommitActiveErr(rows, key, name) ==
    IF name \in DOMAIN rows THEN "AlreadyExists"
    ELSE IF key \notin DOMAIN rows THEN "NotFound"
    ELSE IF rows[key].Kind # "Active" THEN "FailedPrecondition"
    ELSE ""

\* A commit that renames the row and leaves its kind alone.
RenameOnly(rows, key, name, usage) ==
    [k \in (DOMAIN rows \ {key}) \cup {name} |-> IF k = name THEN rows[key] ELSE rows[k]]

\* storage.CommitActive: the row of key moves to name as Committed with the usage.
CommitActive(rows, key, name, usage) ==
    [k \in (DOMAIN rows \ {key}) \cup {name} |->
        IF k = name THEN [rows[key] EXCEPT !.Kind = "Committed", !.Usage = usage]
        ELSE rows[k]]

\* storage.Remove: the error it returns, "" for none.
RemoveErr(rows, key) ==
    IF key \notin DOMAIN rows THEN "NotFound"
    ELSE IF \E k \in DOMAIN rows : rows[k].Parent = key THEN "FailedPrecondition"
    ELSE ""

MountState == [am |-> activeMounts, km |-> kernelMounts, ld |-> loopDevs, md |-> mountDirs]

SetMounts(ms) ==
    /\ activeMounts' = ms.am
    /\ kernelMounts' = ms.km
    /\ loopDevs' = ms.ld
    /\ mountDirs' = ms.md

\* What mounting an image not yet recorded comes to: the fscache mount succeeds;
\* it fails and the loop mount succeeds; both fail at the mount step.
MountModes == {"fscache", "loop", "fail"}

\* The mount of one parent image in DedupStore.mountsWithErofs:
\* MountErofsWithFscache, then MountErofs when that fails.
mountImage(ms, imageID, mode) ==
    IF imageID \in DOMAIN ms.am
    THEN [ms |-> [ms EXCEPT !.am = [@ EXCEPT ![imageID].RefCount = @ + 1]], ok |-> TRUE]
    ELSE IF mode = "fail"
    THEN [ms |-> [ms EXCEPT !.md = @ \cup {imageID}], ok |-> FALSE]
    ELSE [ms |-> [am |-> ms.am @@
                         (imageID :> [ID |-> imageID, MountPath |-> MountPathOf(imageID),
                                      LoopDevice |-> IF mode = "loop" THEN "loop" ELSE "",
                                      RefCount |-> 1]),
                  km |-> [ms.km EXCEPT ![imageID] = @ + 1],
                  ld |-> IF mode = "loop" THEN [ms.ld EXCEPT ![imageID] = @ + 1] ELSE ms.ld,
                  md |-> ms.md \cup {imageID}],
          ok |-> TRUE]

\* The loop of DedupStore.mountsWithErofs over parents[k..]: a parent with an image
\* file is mounted, the others contribute their plain fs directory; the first mount
\* that fails ends the call.
RECURSIVE mountsWithErofs(_, _, _, _)
mountsWithErofs(ms, parents, k, mode) ==
    IF k > Len(parents) THEN [ms |-> ms, ok |-> TRUE]
    ELSE IF parents[k] \notin imageFiles THEN mountsWithErofs(ms, parents, k + 1, mode)
    ELSE LET res == mountImage(ms, parents[k], mode)
         IN  IF res.ok THEN mountsWithErofs(res.ms, parents, k + 1, mode) ELSE res

\* Snapshotter.mounts -> DedupStore.Mounts: the parents are mounted, then
\* CreateOverlayMounts makes <snapshots>/<id>/fs and work.
composeMounts(dirs, id, parents, mode, overlayOk) ==
    LET res == mountsWithErofs(MountState, parents, 1, mode)
    IN  [ms |-> res.ms,
         dirs |-> IF res.ok /\ overlayOk THEN dirs \cup {id} ELSE dirs,
         ok |-> res.ok /\ overlayOk]

\* MountManager.Unmount as DedupStore.Remove calls it, its error only logged.
unmountImage(ms, imageID, umountOk, detachOk) ==
    IF imageID \notin DOMAIN ms.am THEN ms
    ELSE LET mp == ms.am[imageID]
             dec == [ms EXCEPT !.am = [@ EXCEPT ![imageID].RefCount = @ - 1]]
         IN  IF mp.RefCount - 1 > 0 THEN dec
             ELSE IF ~(umountOk /\ ms.km[imageID] > 0) THEN dec
             ELSE [am |-> Without(ms.am, imageID),
                   km |-> [ms.km EXCEPT ![imageID] = @ - 1],
                   ld |-> IF Detached(mp, detachOk) THEN [ms.ld EXCEPT ![imageID] = @ - 1]
                          ELSE ms.ld,
                   md |-> ms.md \ {imageID}]

SnapState == [snapshots |-> snapshots, snapDirs |-> snapDirs, mounts |-> activeMounts,
              marks |-> snapActiveMounts]

SnapCall(op, key, name, id, err, usage) ==
    [op |-> op, key |-> key, name |-> name, id |-> id, err |-> err, usage |-> usage,
     before |-> SnapState]

notSnap == <<storeVars, layerVars, mountOps, lastMount, bgVars>>

\* Snapshotter.Mounts: the key is marked before it is looked up.
Mounts(key, mode, overlayOk) ==
    /\ snapOps < MaxSnapOps
    /\ snapOps' = snapOps + 1
    /\ snapActiveMounts' = snapActiveMounts \cup {key}
    /\ IF key \notin DOMAIN snapshots
       THEN /\ lastSnap' = SnapCall("Mounts", key, "", "", "NotFound", 0)
            /\ UNCHANGED <<snapDirs, mountedIDs, activeMounts, kernelMounts, loopDevs,
                           mountDirs>>
       ELSE LET snap == snapshots[key]
                res == composeMounts(snapDirs, snap.ID, ParentIDs(snapshots, snap.Parent),
                                     mode, overlayOk)
            IN  /\ SetMounts(res.ms)
                /\ snapDirs' = res.dirs
                /\ mountedIDs' = IF snap.ID \in snapDirs THEN mountedIDs \cup {snap.ID}
                                 ELSE mountedIDs
                /\ lastSnap' = SnapCall("Mounts", key, "", snap.ID,
                                        IF res.ok THEN "" ELSE "IO", 0)
    /\ UNCHANGED <<snapshots, nextID, txOpen, race, notSnap>>

CreateFaults == {"none", "prepare", "commit", "overlay"}

\* Snapshotter.createSnapshot.  fault: DedupStore.Prepare (MkdirAll) fails, t.Commit
\* fails, CreateOverlayMounts fails, or none does.  The deferred Rollback tests the function's own err, which
\* the err of "if err := s.storage.Prepare(...)" shadows, so a failed Prepare
\* leaves the write transaction open.  autoConvertLayer finds no fs directory under
\* a snapshot directory just made and does nothing.
createSnapshot(op, kind, key, parent, fault, mode) ==
    /\ snapOps < MaxSnapOps
    /\ snapOps' = snapOps + 1
    /\ ~txOpen
    /\ LET cerr == CreateSnapshotErr(snapshots, key, parent)
       IN  IF cerr # ""
           THEN /\ lastSnap' = SnapCall(op, key, "", "", cerr, 0)
                /\ UNCHANGED <<snapshots, snapDirs, nextID, txOpen, activeMounts,
                               kernelMounts, loopDevs, mountDirs>>
           ELSE /\ nextID < Len(IDs)
                /\ LET id == IDs[nextID + 1]
                   IN  IF fault = "prepare"
                       THEN /\ txOpen' = TRUE
                            /\ lastSnap' = SnapCall(op, key, "", id, "IO", 0)
                            /\ UNCHANGED <<snapshots, snapDirs, nextID, activeMounts,
                                           kernelMounts, loopDevs, mountDirs>>
                       ELSE IF fault = "commit"
                       THEN /\ snapDirs' = snapDirs \cup {id}
                            /\ lastSnap' = SnapCall(op, key, "", id, "IO", 0)
                            /\ UNCHANGED <<snapshots, nextID, txOpen, activeMounts,
                                           kernelMounts, loopDevs, mountDirs>>
                       ELSE LET rows == CreateSnapshot(snapshots, kind, key, parent, id)
                                res == composeMounts(snapDirs \cup {id}, id,
                                                     ParentIDs(rows, parent), mode,
                                                     fault # "overlay")
                            IN  /\ snapshots' = rows
                                /\ nextID' = nextID + 1
                                /\ snapDirs' = res.dirs
                                /\ SetMounts(res.ms)
                                /\ lastSnap' = SnapCall(op, key, "", id,
                                                        IF res.ok THEN "" ELSE "IO", 0)
                                /\ UNCHANGED txOpen
    /\ UNCHANGED <<snapActiveMounts, mountedIDs, race, notSnap>>

\* Snapshotter.Prepare
Prepare(key, parent, fault, mode) ==
    createSnapshot("Prepare", "Active", key, parent, fault, mode)

\* Snapshotter.View
View(key, parent, fault, mode) ==
    createSnapshot("View", "View", key, parent, fault, mode)

CommitFaults == {"none", "usage", "commit"}

\* The transaction of Snapshotter.Commit: GetInfo, DiskUsage (a walk of the
\* snapshot directory), CommitActive, t.Commit; any error rolls back.
CommitBody(name, key, usage, fault) ==
    LET err == IF key \notin DOMAIN snapshots THEN "NotFound"
               ELSE IF snapshots[key].ID \notin snapDirs \/ fault = "usage" THEN "IO"
               ELSE IF CommitActiveErr(snapshots, key, name) # ""
               THEN CommitActiveErr(snapshots, key, name)
               ELSE IF fault = "commit" THEN "IO"
               ELSE ""
    IN  /\ snapshots' = IF err = "" THEN CommitActive(snapshots, key, name, usage)
                        ELSE snapshots
        /\ lastSnap' = SnapCall("Commit", key, name,
                                IF key \in DOMAIN snapshots THEN snapshots[key].ID ELSE "",
                                err, usage)

\* Snapshotter.Commit
Commit(name, key, usage, fault) ==
    /\ snapOps < MaxSnapOps
    /\ snapOps' = snapOps + 1
    /\ ~txOpen
    /\ CommitBody(name, key, usage, fault)
    /\ UNCHANGED <<snapDirs, snapActiveMounts, nextID, txOpen, mountedIDs, activeMounts,
                   kernelMounts, loopDevs, mountDirs, race, notSnap>>

\* A test that defers nothing.
NeverDeferred(marks, key) == FALSE

\* Snapshotter.Remove: if s.activeMounts[key] { ... return nil }
Deferred(marks, key) == key \in marks

RemoveFaults == {"none", "rmdir", "commit"}

\* The transaction of Snapshotter.Remove: storage.Remove, then DedupStore.Remove
\* (Unmount of the snapshot's own id, RemoveAll of its directory), then t.Commit;
\* an error rolls the metadata back, not the unmount or the directory.
RemoveBody(key, umountOk, detachOk, fault) ==
    LET rerr == RemoveErr(snapshots, key)
    IN  IF rerr # ""
        THEN /\ lastSnap' = SnapCall("Remove", key, "", "", rerr, 0)
             /\ UNCHANGED <<snapshots, snapDirs, activeMounts, kernelMounts, loopDevs,
                            mountDirs>>
        ELSE LET id == snapshots[key].ID
             IN  /\ SetMounts(unmountImage(MountState, id, umountOk, detachOk))
                 /\ snapDirs' = IF fault = "rmdir" THEN snapDirs ELSE snapDirs \ {id}
                 /\ snapshots' = IF fault = "none" THEN Without(snapshots, key)
                                 ELSE snapshots
                 /\ lastSnap' = SnapCall("Remove", key, "", id,
                                         IF fault = "none" THEN "" ELSE "IO", 0)

\* Snapshotter.Remove
Remove(key, umountOk, detachOk, fault) ==
    /\ snapOps < MaxSnapOps
    /\ snapOps' = snapOps + 1
    /\ IF Deferred(snapActiveMounts, key)
       THEN /\ lastSnap' = SnapCall("Remove", key, "", "", "", 0)
            /\ UNCHANGED <<snapshots, snapDirs, activeMounts, kernelMounts, loopDevs,
                           mountDirs>>
       ELSE /\ ~txOpen
            /\ RemoveBody(key, umountOk, detachOk, fault)
    /\ UNCHANGED <<snapActiveMounts, nextID, txOpen, mountedIDs, race, notSnap>>

MaxBuilds == 1

\* DedupStore.BuildErofsImage of a tree of small files: the image file appears and
\* the chunk index is not touched.
BuildSmallImage(imageID) ==
    /\ layerOps < MaxBuilds
    /\ BuildErofsImage(imageID, << >>, "none")

\* The environment of one call: at most one of its steps fails.
CreateInputs == {<<"none", m>> : m \in MountModes} \cup
                {<<f, "fscache">> : f \in CreateFaults \ {"none"}}
MountsInputs == {<<m, TRUE>> : m \in MountModes} \cup {<<"fscache", FALSE>>}
RemoveInputs == {<<TRUE, TRUE, f>> : f \in RemoveFaults} \cup
                {<<FALSE, TRUE, "none">>, <<TRUE, FALSE, "none">>}

SnapStep ==
    \/ \E key \in Keys, parent \in Keys \cup {""}, in \in CreateInputs :
           Prepare(key, parent, in[1], in[2])
    \/ \E key \in Keys, parent \in Keys \cup {""}, in \in CreateInputs :
           View(key, parent, in[1], in[2])
    \/ \E key \in Keys, in \in MountsInputs : Mounts(key, in[1], in[2])
    \/ \E name, key \in Keys, usage \in Usages, fault \in CommitFaults :
           Commit(name, key, usage, fault)
    \/ \E key \in Keys, in \in RemoveInputs : Remove(key, in[1], in[2], in[3])
    \/ \E i \in Images : BuildSmallImage(i)

SpecSnap == Init /\ [][SnapStep]_vars

----------------------------------------------------------------------------
(* Commit(name, key) and Remove(key) called together on one Active key *)

MaxRaceSetup == 2

\* Two callers enter Commit(name, key) and Remove(key) while key is Active.
RaceBegin(name, key) ==
    /\ race.phase = "idle"
    /\ key \in DOMAIN snapshots
    /\ snapshots[key].Kind = "Active"
    /\ race' = [phase |-> "running", key |-> key, name |-> name, id |-> snapshots[key].ID,
                marked |-> key \in snapActiveMounts,
                nameUsed |-> name \in DOMAIN snapshots,
                intact |-> snapshots[key].ID \in snapDirs,
                commit |-> "called", commitErr |-> "",
                remove |-> "called", removeErr |-> "", fault |-> FALSE]
    /\ UNCHANGED <<storeVars, mountVars, layerVars, snapVars, bgVars>>

\* Remove, first step: the test of the mark under activeMountsMu.
RaceRemoveCheck ==
    /\ race.remove = "called"
    /\ race' = [race EXCEPT !.remove = IF Deferred(snapActiveMounts, race.key)
                                       THEN "deferred" ELSE "waiting"]
    /\ UNCHANGED <<storeVars, mountVars, layerVars, snapVars, bgVars>>

\* Remove, second step: its write transaction, which the metadata store runs when
\* no other write transaction is open.
RaceRemoveTx(umountOk, detachOk, fault) ==
    /\ race.remove = "waiting"
    /\ ~txOpen
    /\ RemoveBody(race.key, umountOk, detachOk, fault)
    /\ race' = [race EXCEPT !.remove = "returned", !.removeErr = lastSnap'.err,
                            !.fault = @ \/ fault # "none"]
    /\ UNCHANGED <<snapActiveMounts, nextID, txOpen, mountedIDs, snapOps, notSnap>>

\* Commit: its write transaction.
RaceCommit(usage, fault) ==
    /\ race.commit = "called"
    /\ ~txOpen
    /\ CommitBody(race.name, race.key, usage, fault)
    /\ race' = [race EXCEPT !.commit = "returned", !.commitErr = lastSnap'.err,
                            !.fault = @ \/ fault # "none"]
    /\ UNCHANGED <<snapDirs, snapActiveMounts, nextID, txOpen, mountedIDs, snapOps,
                   activeMounts, kernelMounts, loopDevs, mountDirs, notSnap>>

RaceSetup == race.phase = "idle" /\ snapOps < MaxRaceSetup /\ SnapStep

RaceStep ==
    \/ RaceSetup
    \/ \E name, key \in Keys : RaceBegin(name, key)
    \/ RaceRemoveCheck
    \/ \E in \in RemoveInputs : RaceRemoveTx(in[1], in[2], in[3])
    \/ \E usage \in Usages, fault \in CommitFaults : RaceCommit(usage, fault)

SpecRace == Init /\ [][RaceStep]_vars

----------------------------------------------------------------------------
(* Fixed-size chunking byte by byte: DedupStore.chunkData and Builder.chunkFile *)

\* The longest byte stream chunked.
MaxBytes == 5

\* The length of the buffer handed to io.ReadFull: ChunkSize, scaled down.
ChunkLen == 2

Bytes == {0, 1}

ByteStreams == SeqsUpTo(Bytes, MaxBytes)

\* A read that loses a short tail.
ReadFullDropTail(data, offset) ==
    IF Len(data) - offset < ChunkLen THEN [n |-> 0, err |-> "EOF"]
    ELSE [n |-> ChunkLen, err |-> ""]

\* io.ReadFull(r, buf) with offset bytes of data already consumed.
ReadFull(data, offset) ==
    LET rest == Len(data) - offset
    IN  IF rest = 0 THEN [n |-> 0, err |-> "EOF"]
        ELSE IF rest < ChunkLen THEN [n |-> rest, err |-> "ErrUnexpectedEOF"]
        ELSE [n |-> ChunkLen, err |-> ""]

\* buffer[:n] after the read at offset.
Window(data, offset, n) == SubSeq(data, offset + 1, offset + n)

\* sha256.Sum256 + hex.EncodeToString: injective on the byte strings of the model.
Sum256(bytes) == [sha256 |-> bytes]

\* The loop of DedupStore.chunkData; pos is the position of the reader.
RECURSIVE chunkDataLoop(_, _, _)
chunkDataLoop(data, pos, cs) ==
    LET r == ReadFull(data, pos)
        next == Append(cs, [Hash |-> Sum256(Window(data, pos, r.n)), Size |-> r.n])
    IN  IF r.n = 0 THEN cs
        ELSE IF r.err # "" THEN next
        ELSE chunkDataLoop(data, pos + r.n, next)

\* The ChunkInfo Builder.chunkFile appends for the n bytes read at offset.
ChunkAt(file, offset, n) ==
    [Hash |-> Sum256(Window(file, offset, n)), Offset |-> offset, Size |-> n]

\* The loop of Builder.chunkFile: the list it returns when no write fails.
RECURSIVE chunkFileLoop(_, _, _)
chunkFileLoop(file, offset, cs) ==
    LET r == ReadFull(file, offset)
        next == Append(cs, ChunkAt(file, offset, r.n))
    IN  IF r.n = 0 THEN cs
        ELSE IF r.err # "" THEN next
        ELSE chunkFileLoop(file, offset + r.n, next)

\* Two streams are chunked, once, as TestBlockBoundaryFixedSize does with fileA and
\* fileB.
ChunkStreams(s, t) ==
    /\ chunker.in = << >>
    /\ chunker' = [in |-> <<s, t>>,
                   data |-> <<chunkDataLoop(s, 0, << >>), chunkDataLoop(t, 0, << >>)>>,
                   file |-> <<chunkFileLoop(s, 0, << >>), chunkFileLoop(t, 0, << >>)>>]
    /\ UNCHANGED <<chunkContent, bld, bldOps>>
    /\ UNCHANGED <<storeVars, mountVars, layerVars, snapVars, race, loaderVars, daemonVars,
                   prefetchVars, shutdownVars, lockVars, loadChunkVars>>

ChunkerStep == \E s, t \in ByteStreams : ChunkStreams(s, t)

SpecChunker == Init /\ [][ChunkerStep]_vars

----------------------------------------------------------------------------
(* Builder.deduplicateFile step by step, on two goroutines and across crashes *)

\* deduplicateFile calls begun and crashes, together.
MaxBuildCalls == 3

\* The large files of a source tree (processFile copies the smaller ones): zero
\* bytes up to a last byte of any value.
BuildFiles ==
    {f \in ByteStreams : Len(f) >= ChunkLen /\ \A i \in 1..(Len(f) - 1) : f[i] = 0}

\* The image each goroutine builds.
ImageOf(g) == IF g = "g1" THEN "img1" ELSE "img2"

SetBuild(g, b) == bld' = [bld EXCEPT ![g] = b]

notBuilder == <<storeVars, mountVars, snapVars, race, chunker, loaderVars, daemonVars,
               prefetchVars, shutdownVars, lockVars, loadChunkVars>>

notIndexed == <<erofsChunks, imageChunks, imageRows, recorded, erofsChunkFiles, imageFiles,
                digestFiles, layerMetadata, processed, layerOps, lastLayer>>

\* processFile hands a file of at least ChunkSize bytes to deduplicateFile.
BuildBegin(g, file) ==
    /\ bld[g].pc \in {"idle", "done", "failed"}
    /\ bldOps < MaxBuildCalls
    /\ bldOps' = bldOps + 1
    /\ SetBuild(g, [NoBuild EXCEPT !.pc = "read", !.file = file])
    /\ UNCHANGED <<chunkContent, notIndexed, notBuilder>>

\* chunkFile: io.ReadFull, the digest of buffer[:n] and os.Stat of its chunk path.
BuildRead(g) ==
    /\ bld[g].pc = "read"
    /\ LET b == bld[g]
           r == ReadFull(b.file, b.offset)
           c == ChunkAt(b.file, b.offset, r.n)
       IN  IF r.n = 0 THEN SetBuild(g, [b EXCEPT !.pc = "record"])
           ELSE IF c.Hash \in DOMAIN chunkContent
           THEN SetBuild(g, [b EXCEPT !.chunks = Append(@, c), !.offset = @ + r.n,
                                      !.pc = IF r.err # "" THEN "record" ELSE "read"])
           ELSE SetBuild(g, [b EXCEPT !.n = r.n, !.eof = r.err # "", !.pc = "create"])
    /\ UNCHANGED <<chunkContent, bldOps, notIndexed, notBuilder>>

\* os.WriteFile, first half: OpenFile(chunkPath, O_WRONLY|O_CREATE|O_TRUNC).
BuildCreate(g) ==
    /\ bld[g].pc = "create"
    /\ LET b == bld[g]
           hash == ChunkAt(b.file, b.offset, b.n).Hash
       IN  /\ chunkContent' = [h \in DOMAIN chunkContent \cup {hash} |->
                                  IF h = hash THEN << >> ELSE chunkContent[h]]
           /\ SetBuild(g, [b EXCEPT !.pc = "write"])
    /\ UNCHANGED <<bldOps, notIndexed, notBuilder>>

\* os.WriteFile, second half: Write(buffer[:n]) stores k bytes from position 0 of
\* the file and fails when k < n; then the chunk is appended and the loop goes on.
BuildWrite(g, k) ==
    /\ bld[g].pc = "write"
    /\ k \in 0..bld[g].n
    /\ LET b == bld[g]
           c == ChunkAt(b.file, b.offset, b.n)
           data == Window(b.file, b.offset, b.n)
       IN  /\ chunkContent' = [chunkContent EXCEPT
                                  ![c.Hash] = IF Len(@) >= k THEN @ ELSE SubSeq(data, 1, k)]
           /\ IF k = b.n
              THEN SetBuild(g, [b EXCEPT !.chunks = Append(@, c), !.offset = @ + b.n,
                                         !.pc = IF b.eof THEN "record" ELSE "read"])
              ELSE SetBuild(g, [b EXCEPT !.pc = "failed"])
    /\ UNCHANGED <<bldOps, notIndexed, notBuilder>>

\* deduplicateFile: one RecordChunk per chunk of the list.
BuildRecord(g) ==
    /\ bld[g].pc = "record"
    /\ LET b == bld[g]
           res == recordLoop(Index, ImageOf(g), b.chunks, 1, 0)
       IN  /\ SetIndex(res.ix)
           /\ recorded' = [recorded EXCEPT
                              ![ImageOf(g)] = @ \o [i \in 1..Len(b.chunks) |-> b.chunks[i].Hash]]
           /\ SetBuild(g, [b EXCEPT !.pc = "reconstruct"])
    /\ UNCHANGED <<erofsChunkFiles, imageFiles, digestFiles, layerMetadata, processed,
                   layerOps, lastLayer>>
    /\ UNCHANGED <<chunkContent, bldOps, notBuilder>>

\* The loop of Builder.reconstructFile: os.ReadFile of each chunk path, written to
\* the output one after the other.
RECURSIVE readChunks(_, _, _)
readChunks(content, cs, k) ==
    IF k > Len(cs) THEN << >>
    ELSE content[cs[k].Hash] \o readChunks(content, cs, k + 1)

\* Builder.reconstructFile
BuildReconstruct(g) ==
    /\ bld[g].pc = "reconstruct"
    /\ SetBuild(g, [bld[g] EXCEPT !.out = readChunks(chunkContent, bld[g].chunks, 1),
                                  !.pc = "done"])
    /\ UNCHANGED <<chunkContent, bldOps, notIndexed, notBuilder>>

\* The process dies while a file is being deduplicated and is started again: the
\* goroutines are gone, the files stay as they are.
BuildCrash ==
    /\ \E g \in Goroutines : bld[g].pc \notin {"idle", "done", "failed"}
    /\ bldOps < MaxBuildCalls
    /\ bldOps' = bldOps + 1
    /\ bld' = [g \in Goroutines |-> NoBuild]
    /\ UNCHANGED <<chunkContent, notIndexed, notBuilder>>

BuildStep ==
    \/ \E g \in Goroutines, f \in BuildFiles : BuildBegin(g, f)
    \/ \E g \in Goroutines : BuildRead(g)
    \/ \E g \in Goroutines : BuildCreate(g)
    \/ \E g \in Goroutines, k \in 0..ChunkLen : BuildWrite(g, k)
    \/ \E g \in Goroutines : BuildRecord(g)
    \/ \E g \in Goroutines : BuildReconstruct(g)
    \/ BuildCrash

SpecBuild == Init /\ [][BuildStep]_vars

----------------------------------------------------------------------------
(* LazyLoader.loadChunk step by step, on two goroutines and across crashes *)

\* loadChunk calls begun and crashes, together.
MaxLoads == 3

\* The chunk the registry serves, and its digest.
RemoteChunk == <<1, 1>>

LoadDigests == {Sum256(RemoteChunk)}

\* filepath.Join(l.cacheDir, chunkHash) and the same with ".tmp" appended.
ChunkPath(h) == [hash |-> h, tmp |-> FALSE]
TmpPath(h) == [hash |-> h, tmp |-> TRUE]

SetLoad(g, l) == ld' = [ld EXCEPT ![g] = l]

notLoader == <<storeVars, mountVars, layerVars, snapVars, race, builderVars, daemonVars,
              prefetchVars, shutdownVars, lockVars, loadChunkVars>>

\* A name without its entry.
Unlink(names, nm) == [x \in DOMAIN names \ {nm} |-> names[x]]

\* write(2) of one byte at offset off: a file shorter than off is filled with
\* zero bytes up to it.
WriteAt(content, off, byte) ==
    [i \in 1..(IF Len(content) > off THEN Len(content) ELSE off + 1) |->
        IF i = off + 1 THEN byte
        ELSE IF i <= Len(content) THEN content[i] ELSE 0]

\* A prefetch worker or LoadChunk enters loadChunk.
LoadBegin(g, h) ==
    /\ ld[g].pc \in {"idle", "done", "failed"}
    /\ ldOps < MaxLoads
    /\ ldOps' = ldOps + 1
    /\ SetLoad(g, [NoLoad EXCEPT !.pc = "stat", !.hash = h])
    /\ UNCHANGED <<cacheNames, cacheInodes, loadedChunks, notLoader>>

\* loadChunk: os.Stat(chunkPath); a chunk found is marked loaded.
LoadStat(g) ==
    /\ ld[g].pc = "stat"
    /\ IF ChunkPath(ld[g].hash) \in DOMAIN cacheNames
       THEN /\ loadedChunks' = loadedChunks \cup {ld[g].hash}
            /\ SetLoad(g, [ld[g] EXCEPT !.pc = "done"])
       ELSE /\ SetLoad(g, [ld[g] EXCEPT !.pc = "get"])
            /\ UNCHANGED loadedChunks
    /\ UNCHANGED <<cacheNames, cacheInodes, ldOps, notLoader>>

\* fetchChunk: the GET and the test of the status code.
LoadGet(g, ok) ==
    /\ ld[g].pc = "get"
    /\ SetLoad(g, [ld[g] EXCEPT !.pc = IF ok THEN "create" ELSE "failed"])
    /\ UNCHANGED <<cacheNames, cacheInodes, loadedChunks, ldOps, notLoader>>

\* fetchChunk: os.Create(tmpPath) opens the file under that name, truncated, or
\* makes a new one.
LoadCreate(g) ==
    /\ ld[g].pc = "create"
    /\ LET tmp == TmpPath(ld[g].hash)
           ino == IF tmp \in DOMAIN cacheNames THEN cacheNames[tmp]
                  ELSE Cardinality(DOMAIN cacheInodes) + 1
       IN  /\ cacheNames' = [x \in DOMAIN cacheNames \cup {tmp} |->
                                IF x = tmp THEN ino ELSE cacheNames[x]]
           /\ cacheInodes' = [i \in DOMAIN cacheInodes \cup {ino} |->
                                 IF i = ino THEN << >> ELSE cacheInodes[i]]
           /\ SetLoad(g, [ld[g] EXCEPT !.pc = "copy", !.fd = ino, !.off = 0])
    /\ UNCHANGED <<loadedChunks, ldOps, notLoader>>

\* fetchChunk: io.Copy(file, resp.Body), one byte at a time; ok is false when the
\* body fails.
LoadCopy(g, ok) ==
    /\ ld[g].pc = "copy"
    /\ LET l == ld[g]
           body == l.hash.sha256
       IN  IF ~ok
           THEN /\ SetLoad(g, [l EXCEPT !.pc = "failed"])
                /\ UNCHANGED cacheInodes
           ELSE IF l.off = Len(body)
           THEN /\ SetLoad(g, [l EXCEPT !.pc = "rename"])
                /\ UNCHANGED cacheInodes
           ELSE /\ cacheInodes' = [cacheInodes EXCEPT
                                      ![l.fd] = WriteAt(@, l.off, body[l.off + 1])]
                /\ SetLoad(g, [l EXCEPT !.off = @ + 1])
    /\ UNCHANGED <<cacheNames, loadedChunks, ldOps, notLoader>>

\* loadChunk: os.Rename(tmpPath, chunkPath); when it fails, os.Remove(tmpPath).
LoadRename(g) ==
    /\ ld[g].pc = "rename"
    /\ LET tmp == TmpPath(ld[g].hash)
           final == ChunkPath(ld[g].hash)
       IN  IF tmp \in DOMAIN cacheNames
           THEN /\ cacheNames' = [x \in (DOMAIN cacheNames \ {tmp}) \cup {final} |->
                                     IF x = final THEN cacheNames[tmp] ELSE cacheNames[x]]
                /\ loadedChunks' = loadedChunks \cup {ld[g].hash}
                /\ SetLoad(g, [ld[g] EXCEPT !.pc = "done"])
           ELSE /\ cacheNames' = Unlink(cacheNames, tmp)
                /\ SetLoad(g, [ld[g] EXCEPT !.pc = "failed"])
                /\ UNCHANGED loadedChunks
    /\ UNCHANGED <<cacheInodes, ldOps, notLoader>>

\* The process dies while a chunk is being loaded and is started again.
LoadCrash ==
    /\ \E g \in Goroutines : ld[g].pc \notin {"idle", "done", "failed"}
    /\ ldOps < MaxLoads
    /\ ldOps' = ldOps + 1
    /\ ld' = [g \in Goroutines |-> NoLoad]
    /\ loadedChunks' = {}
    /\ lc' = [g \in Goroutines |-> NoChunkCall]
    /\ loaderReaders' = 0
    /\ UNCHANGED <<cacheNames, cacheInodes, storeVars, mountVars, layerVars, snapVars, race,
                   builderVars, daemonVars, prefetchVars, shutdownVars, lockVars>>

LoadStep ==
    \/ \E g \in Goroutines, h \in LoadDigests : LoadBegin(g, h)
    \/ \E g \in Goroutines : LoadStat(g)
    \/ \E g \in Goroutines, ok \in BOOLEAN : LoadGet(g, ok)
    \/ \E g \in Goroutines : LoadCreate(g)
    \/ \E g \in Goroutines, ok \in BOOLEAN : LoadCopy(g, ok)
    \/ \E g \in Goroutines : LoadRename(g)
    \/ LoadCrash

SpecLoad == Init /\ [][LoadStep]_vars

----------------------------------------------------------------------------
(* LazyLoader.LoadChunk: the read lock around the test of loadedChunks *)

notLoadChunk == <<storeVars, mountVars, layerVars, snapVars, race, builderVars, daemonVars,
                 prefetchVars, shutdownVars, lockVars>>

SetChunkCall(g, c) == lc' = [lc EXCEPT ![g] = c]

\* sync.RWMutex.RUnlock with no writer about: the count goes down by one, whoever
\* took the lock; with no read lock held the runtime ends the process ("sync:
\* RUnlock of unlocked RWMutex").
RUnlockFatal(readers) == readers = 0

\* LoadChunk: l.mu.RLock() and the test of l.loadedChunks[chunkHash].
LoadChunkLock(g, h) ==
    /\ lc[g].pc \in {"idle", "returned"}
    /\ \A o \in Goroutines : lc[o].pc # "fatal"
    /\ loaderReaders' = loaderReaders + 1
    /\ SetChunkCall(g, [pc |-> IF h \in loadedChunks THEN "hit" ELSE "miss", hash |-> h,
                        rlocks |-> 1, runlocks |-> 0])
    /\ UNCHANGED <<loaderVars, notLoadChunk>>

\* LoadChunk, the chunk is marked loaded: l.mu.RUnlock() and os.Stat(chunkPath);
\* with the file there the call returns, otherwise it goes on to the RUnlock below.
LoadChunkHit(g) ==
    /\ lc[g].pc = "hit"
    /\ \A o \in Goroutines : lc[o].pc # "fatal"
    /\ IF RUnlockFatal(loaderReaders)
       THEN /\ SetChunkCall(g, [lc[g] EXCEPT !.pc = "fatal", !.runlocks = @ + 1])
            /\ UNCHANGED loaderReaders
       ELSE /\ loaderReaders' = loaderReaders - 1
            /\ SetChunkCall(g, [lc[g] EXCEPT
                                   !.pc = IF ChunkPath(lc[g].hash) \in DOMAIN cacheNames
                                          THEN "returned" ELSE "miss",
                                   !.runlocks = @ + 1])
    /\ UNCHANGED <<loaderVars, notLoadChunk>>

\* LoadChunk: the l.mu.RUnlock() before the call of loadChunk, which LoadBegin and
\* the steps after it model.
LoadChunkMiss(g) ==
    /\ lc[g].pc = "miss"
    /\ \A o \in Goroutines : lc[o].pc # "fatal"
    /\ IF RUnlockFatal(loaderReaders)
       THEN /\ SetChunkCall(g, [lc[g] EXCEPT !.pc = "fatal", !.runlocks = @ + 1])
            /\ UNCHANGED loaderReaders
       ELSE /\ loaderReaders' = loaderReaders - 1
            /\ SetChunkCall(g, [lc[g] EXCEPT !.pc = "returned", !.runlocks = @ + 1])
    /\ UNCHANGED <<loaderVars, notLoadChunk>>

\* The file of a chunk is removed from the cache directory by something other than
\* the loader; LoadChunk tests for it with os.Stat.
CacheFileRemoved(h) ==
    /\ ChunkPath(h) \in DOMAIN cacheNames
    /\ ldOps < MaxLoads
    /\ ldOps' = ldOps + 1
    /\ cacheNames' = Unlink(cacheNames, ChunkPath(h))
    /\ UNCHANGED <<cacheInodes, loadedChunks, ld, loadChunkVars, notLoadChunk>>

LoadChunkStep ==
    \/ LoadStep
    \/ \E g \in Goroutines, h \in LoadDigests : LoadChunkLock(g, h)
    \/ \E g \in Goroutines : LoadChunkHit(g)
    \/ \E g \in Goroutines : LoadChunkMiss(g)
    \/ \E h \in LoadDigests : CacheFileRemoved(h)

SpecLoadChunk == Init /\ [][LoadChunkStep]_vars

----------------------------------------------------------------------------
(* fscache.DedupDaemon: the download queue, its workers and the cache objects *)

\* EnqueueDownload calls.
MaxEnqueue == 2

\* The capacity of the channel: 10000, scaled down.
QueueCap == 1

\* DownloadTask.ChunkHash of the tasks enqueued, all on one volume.
TaskKeys == {"c1", "c2"}

\* DownloadTask.Size
TaskSize == 2

notDaemon == <<storeVars, mountVars, layerVars, snapVars, race, builderVars, loaderVars,
              prefetchVars, shutdownVars, lockVars, loadChunkVars>>

\* The cases of the select in EnqueueDownload that can proceed: the send (a send on
\* a closed channel proceeds, and panics) and the receive from ctx.Done().
EnqueueReady ==
    (IF queueClosed \/ Len(downloadQueue) < QueueCap THEN {"send"} ELSE {})
        \cup (IF ctxDone THEN {"done"} ELSE {})

\* select: one of the cases that can proceed, any of them; default when none can.
Selected(ready, case) == IF ready = {} THEN case = "default" ELSE case \in ready

\* The body of DedupDaemon.EnqueueDownload.
SendOrDrop(key, case) ==
    /\ Selected(EnqueueReady, case)
    /\ enqCalls' = enqCalls + 1
    /\ LET task == [id |-> enqCalls + 1, key |-> key, size |-> TaskSize]
           sent == case = "send" /\ ~queueClosed
       IN  /\ downloadQueue' = IF sent THEN Append(downloadQueue, task) ELSE downloadQueue
           /\ accepted' = IF sent THEN Append(accepted, task.id) ELSE accepted
           /\ lastEnqueue' = [id |-> task.id, ready |-> EnqueueReady,
                              outcome |-> IF sent THEN "queued"
                                          ELSE IF case = "send" THEN "panic"
                                          ELSE "dropped"]

\* DedupDaemon.EnqueueDownload
EnqueueDownload(key, case) ==
    /\ enqCalls < MaxEnqueue
    /\ SendOrDrop(key, case)
    /\ UNCHANGED <<queueClosed, ctxDone, volObjects, dw, taken, lastTask, notDaemon>>

SetWorker(w, x) == dw' = [dw EXCEPT ![w] = x]

\* A worker that returns when its task has failed.
EndTaskOrStop(w, outcome) ==
    /\ SetWorker(w, IF outcome = "failed" THEN [IdleWorker EXCEPT !.pc = "exited"]
                    ELSE IdleWorker)
    /\ lastTask' = [id |-> dw[w].task.id, key |-> dw[w].task.key, worker |-> w,
                    outcome |-> outcome]

\* The task of worker w ends: processDownloadTask returns, the worker logs the
\* outcome and goes back to its select.
EndTask(w, outcome) ==
    /\ SetWorker(w, IdleWorker)
    /\ lastTask' = [id |-> dw[w].task.id, key |-> dw[w].task.key, worker |-> w,
                    outcome |-> outcome]

\* downloadWorker: the select takes a task from the queue.
WorkerTake(w) ==
    /\ dw[w].pc = "idle"
    /\ downloadQueue # << >>
    /\ SetWorker(w, [pc |-> "get", task |-> Head(downloadQueue), len |-> 0])
    /\ downloadQueue' = Tail(downloadQueue)
    /\ taken' = Append(taken, Head(downloadQueue).id)
    /\ UNCHANGED <<queueClosed, ctxDone, volObjects, enqCalls, accepted, lastTask,
                   lastEnqueue, notDaemon>>

\* downloadWorker: the select sees ctx.Done(), or receives nil from the closed and
\* empty channel; the worker returns.
WorkerExit(w) ==
    /\ dw[w].pc = "idle"
    /\ ctxDone \/ (queueClosed /\ downloadQueue = << >>)
    /\ SetWorker(w, [IdleWorker EXCEPT !.pc = "exited"])
    /\ UNCHANGED <<downloadQueue, queueClosed, ctxDone, volObjects, enqCalls, accepted,
                   taken, lastTask, lastEnqueue, notDaemon>>

\* processDownloadTask: GetObject and the test of exists && obj.Complete.
TaskGet(w) ==
    /\ dw[w].pc = "get"
    /\ LET key == dw[w].task.key
       IN  IF key \in DOMAIN volObjects /\ volObjects[key].Complete
           THEN EndTask(w, "cached")
           ELSE /\ SetWorker(w, [dw[w] EXCEPT !.pc = IF key \in DOMAIN volObjects
                                                      THEN "fetch" ELSE "create"])
                /\ UNCHANGED lastTask
    /\ UNCHANGED <<downloadQueue, queueClosed, ctxDone, volObjects, enqCalls, accepted,
                   taken, lastEnqueue, notDaemon>>

\* A CreateObject that does not look for the key first: the new object takes the
\* place of the one in the map.
ReplaceObject(objs, key, size) ==
    [k \in DOMAIN objs \cup {key} |->
        IF k = key
        THEN [Size |-> size, Complete |-> FALSE, written |-> 0,
              cmds |-> IF key \in DOMAIN objs THEN objs[key].cmds ELSE 0,
              made |-> IF key \in DOMAIN objs THEN objs[key].made + 1 ELSE 1]
        ELSE objs[k]]

\* Volume.CreateObject when the device accepts "open <key>": the object already in
\* the map, or a new one.  cmds counts the "complete" commands the kernel has
\* accepted for the key, made the objects created for it.
CreateObject(objs, key, size) ==
    IF key \in DOMAIN objs THEN objs
    ELSE objs @@ (key :> [Size |-> size, Complete |-> FALSE, written |-> 0,
                          cmds |-> 0, made |-> 1])

\* processDownloadTask: Volume.CreateObject under the volume lock; ok is false when
\* the cachefiles device fails on a key not yet in the map.
TaskCreate(w, ok) ==
    /\ dw[w].pc = "create"
    /\ LET key == dw[w].task.key
       IN  IF key \in DOMAIN volObjects \/ ok
           THEN /\ volObjects' = CreateObject(volObjects, key, dw[w].task.size)
                /\ SetWorker(w, [dw[w] EXCEPT !.pc = "fetch"])
                /\ UNCHANGED lastTask
           ELSE /\ EndTask(w, "failed")
                /\ UNCHANGED volObjects
    /\ UNCHANGED <<downloadQueue, queueClosed, ctxDone, enqCalls, accepted, taken,
                   lastEnqueue, notDaemon>>

\* What the registry answers to the ranged GET: 206 with the range, 206 with less
\* (the blob ends inside the range), 200 with the whole blob, or an error.
FetchAnswers == {"range", "short", "whole", "error"}

\* len(data) after io.ReadAll.
FetchedLen(size, answer) ==
    IF answer = "range" THEN size ELSE IF answer = "short" THEN size - 1 ELSE size + 1

\* DedupDaemon.fetchChunkData; the request carries d.ctx and fails once it is done.
TaskFetch(w, answer) ==
    /\ dw[w].pc = "fetch"
    /\ ctxDone => answer = "error"
    /\ IF answer = "error"
       THEN EndTask(w, "failed")
       ELSE /\ SetWorker(w, [dw[w] EXCEPT !.pc = "write",
                                          !.len = FetchedLen(dw[w].task.size, answer)])
            /\ UNCHANGED lastTask
    /\ UNCHANGED <<downloadQueue, queueClosed, ctxDone, volObjects, enqCalls, accepted,
                   taken, lastEnqueue, notDaemon>>

PwriteResults == {"all", "short", "error"}

\* CacheObject.Write(0, data): Pwrite stores n <= len(data) bytes at offset 0; the
\* caller drops n.
TaskWrite(w, result) ==
    /\ dw[w].pc = "write"
    /\ LET key == dw[w].task.key
           n == IF result = "all" THEN dw[w].len ELSE dw[w].len - 1
       IN  IF result = "error"
           THEN /\ EndTask(w, "failed")
                /\ UNCHANGED volObjects
           ELSE /\ volObjects' = [volObjects EXCEPT
                                     ![key].written = IF n > @ THEN n ELSE @]
                /\ SetWorker(w, [dw[w] EXCEPT !.pc = "mark"])
                /\ UNCHANGED lastTask
    /\ UNCHANGED <<downloadQueue, queueClosed, ctxDone, enqCalls, accepted, taken,
                   lastEnqueue, notDaemon>>

\* A MarkComplete that sends the command whatever the flag says.
MarkAlways(obj, ok) ==
    IF ok THEN [obj EXCEPT !.cmds = @ + 1, !.Complete = TRUE] ELSE obj

\* CacheObject.MarkComplete on the object obj; ok: the write of "complete" succeeds.
MarkComplete(obj, ok) ==
    IF obj.Complete THEN obj
    ELSE IF ok THEN [obj EXCEPT !.cmds = @ + 1, !.Complete = TRUE]
    ELSE obj

\* processDownloadTask: obj.MarkComplete() and the return.
TaskMark(w, ok) ==
    /\ dw[w].pc = "mark"
    /\ LET key == dw[w].task.key
       IN  /\ volObjects' = [volObjects EXCEPT ![key] = MarkComplete(@, ok)]
           /\ EndTask(w, IF volObjects[key].Complete \/ ok THEN "done" ELSE "failed")
    /\ UNCHANGED <<downloadQueue, queueClosed, ctxDone, enqCalls, accepted, taken,
                   lastEnqueue, notDaemon>>

\* Shutdown: d.cancel()
ShutdownCancel ==
    /\ ~ctxDone
    /\ ctxDone' = TRUE
    /\ UNCHANGED <<downloadQueue, queueClosed, volObjects, dw, enqCalls, accepted,
                   taken, lastTask, lastEnqueue, notDaemon>>

\* Shutdown: d.wg.Wait() has returned; close(d.downloadQueue)
ShutdownClose ==
    /\ ctxDone
    /\ ~queueClosed
    /\ \A w \in DownloadWorkers : dw[w].pc = "exited"
    /\ queueClosed' = TRUE
    /\ UNCHANGED <<downloadQueue, ctxDone, volObjects, dw, enqCalls, accepted, taken,
                   lastTask, lastEnqueue, notDaemon>>

DaemonStep ==
    \/ \E key \in TaskKeys, case \in {"send", "done", "default"} : EnqueueDownload(key, case)
    \/ \E w \in DownloadWorkers : WorkerTake(w)
    \/ \E w \in DownloadWorkers : WorkerExit(w)
    \/ \E w \in DownloadWorkers : TaskGet(w)
    \/ \E w \in DownloadWorkers, ok \in BOOLEAN : TaskCreate(w, ok)
    \/ \E w \in DownloadWorkers, answer \in FetchAnswers : TaskFetch(w, answer)
    \/ \E w \in DownloadWorkers, result \in PwriteResults : TaskWrite(w, result)
    \/ \E w \in DownloadWorkers, ok \in BOOLEAN : TaskMark(w, ok)
    \/ ShutdownCancel
    \/ ShutdownClose

SpecDaemon == Init /\ [][DaemonStep]_vars

----------------------------------------------------------------------------
(* fscache.Prefetcher: prefetch jobs, their goroutines and their per-entry tasks *)

\* StartPrefetch calls that make a job.
MaxJobs == 2

\* The number of entries of a trace file.
TraceLen == 2

\* Prefetcher.maxConcurrent: 8, scaled down.
MaxConcurrent == 1

\* The images prefetched.
PrefetchImages == {"img1"}

notPrefetcher == <<storeVars, mountVars, layerVars, snapVars, race, builderVars, loaderVars,
                  shutdownVars, lockVars, loadChunkVars>>

SetJob(j, x) == jobs' = [jobs EXCEPT ![j] = x]

PrefetchCall(op, image, err) ==
    [op |-> op, image |-> image, err |-> err, before |-> activeJobs]

\* The job goroutines that have not returned.
Running(js, image) == {j \in DOMAIN js : js[j].image = image /\ js[j].pc # "ended"}

\* Prefetcher.StartPrefetch; traceOk: the trace file can be read.
StartPrefetch(image, traceOk) ==
    /\ Len(jobs) < MaxJobs
    /\ IF image \in DOMAIN activeJobs \/ ~traceOk
       THEN /\ lastPrefetch' = PrefetchCall("StartPrefetch", image, TRUE)
            /\ UNCHANGED <<activeJobs, jobs>>
       ELSE /\ jobs' = Append(jobs, [image |-> image, pc |-> "loop", next |-> 1,
                                      cancelled |-> FALSE, running |-> {}, Index |-> 0])
            /\ activeJobs' = [i \in DOMAIN activeJobs \cup {image} |->
                                 IF i = image THEN Len(jobs) + 1 ELSE activeJobs[i]]
            /\ lastPrefetch' = PrefetchCall("StartPrefetch", image, FALSE)
    /\ UNCHANGED <<daemonVars, notPrefetcher>>

\* delete(p.activeJobs, imageID)
DeleteJob(active, image) == [i \in DOMAIN active \ {image} |-> active[i]]

\* Prefetcher.StopPrefetch
StopPrefetch(image) ==
    /\ IF image \notin DOMAIN activeJobs
       THEN /\ lastPrefetch' = PrefetchCall("StopPrefetch", image, TRUE)
            /\ UNCHANGED <<activeJobs, jobs>>
       ELSE /\ SetJob(activeJobs[image], [jobs[activeJobs[image]] EXCEPT !.cancelled = TRUE])
            /\ activeJobs' = DeleteJob(activeJobs, image)
            /\ lastPrefetch' = PrefetchCall("StopPrefetch", image, FALSE)
    /\ lastPrefetch' # lastPrefetch \/ activeJobs' # activeJobs
    /\ UNCHANGED <<daemonVars, notPrefetcher>>

\* Prefetcher.Stop: every job of the map is cancelled and the map replaced by an
\* empty one.
Stop ==
    /\ activeJobs # << >>
    /\ jobs' = [j \in DOMAIN jobs |->
                   IF \E i \in DOMAIN activeJobs : activeJobs[i] = j
                   THEN [jobs[j] EXCEPT !.cancelled = TRUE] ELSE jobs[j]]
    /\ activeJobs' = << >>
    /\ lastPrefetch' = PrefetchCall("Stop", "", FALSE)
    /\ UNCHANGED <<daemonVars, notPrefetcher>>

\* The context StartPrefetch was called with is cancelled, and the job's with it.
CallerCancel(j) ==
    /\ j \in DOMAIN jobs
    /\ jobs[j].pc # "ended"
    /\ ~jobs[j].cancelled
    /\ SetJob(j, [jobs[j] EXCEPT !.cancelled = TRUE])
    /\ UNCHANGED <<activeJobs, lastPrefetch, daemonVars, notPrefetcher>>

\* The cases of the select in runPrefetchJob that can proceed.
JobReady(job) ==
    (IF job.cancelled THEN {"done"} ELSE {})
        \cup (IF Cardinality(job.running) < MaxConcurrent THEN {"sem"} ELSE {})

\* runPrefetchJob, one turn of the loop over the trace entries: after the last
\* entry the goroutine goes to wg.Wait(); otherwise the select either sees the
\* cancellation (and goes to wg.Wait()) or takes a slot and starts the entry's task.
JobLoop(j, case) ==
    /\ j \in DOMAIN jobs
    /\ jobs[j].pc = "loop"
    /\ IF jobs[j].next > TraceLen
       THEN /\ case = "sem"
            /\ SetJob(j, [jobs[j] EXCEPT !.pc = "wait"])
       ELSE /\ case \in JobReady(jobs[j])
            /\ IF case = "done"
               THEN SetJob(j, [jobs[j] EXCEPT !.pc = "cancelled"])
               ELSE SetJob(j, [jobs[j] EXCEPT !.running = @ \cup {jobs[j].next},
                                              !.next = @ + 1])
    /\ UNCHANGED <<activeJobs, lastPrefetch, daemonVars, notPrefetcher>>

\* The task of entry i of job j: prefetchChunk (an EnqueueDownload unless the
\* chunk is complete in the cache), job.Index = i, and the slot given back.
EntryTask(j, i, key, case) ==
    /\ j \in DOMAIN jobs
    /\ i \in jobs[j].running
    /\ SetJob(j, [jobs[j] EXCEPT !.running = @ \ {i}, !.Index = i])
    /\ IF key \in DOMAIN volObjects /\ volObjects[key].Complete
       THEN /\ case = "default"
            /\ UNCHANGED <<downloadQueue, enqCalls, accepted, lastEnqueue>>
       ELSE SendOrDrop(key, case)
    /\ UNCHANGED <<queueClosed, ctxDone, volObjects, dw, taken, lastTask>>
    /\ UNCHANGED <<activeJobs, lastPrefetch, notPrefetcher>>

\* runPrefetchJob: wg.Wait() has returned and the deferred function deletes the
\* entry of the job's image from the map.
JobEnd(j) ==
    /\ j \in DOMAIN jobs
    /\ jobs[j].pc \in {"wait", "cancelled"}
    /\ jobs[j].running = {}
    /\ SetJob(j, [jobs[j] EXCEPT !.pc = "ended"])
    /\ activeJobs' = DeleteJob(activeJobs, jobs[j].image)
    /\ UNCHANGED <<lastPrefetch, daemonVars, notPrefetcher>>

JobIds == 1..MaxJobs

PrefetchStep ==
    \/ \E image \in PrefetchImages, traceOk \in BOOLEAN : StartPrefetch(image, traceOk)
    \/ \E image \in PrefetchImages : StopPrefetch(image)
    \/ Stop
    \/ \E j \in JobIds : CallerCancel(j)
    \/ \E j \in JobIds, case \in {"done", "sem"} : JobLoop(j, case)
    \/ \E j \in JobIds, i \in 1..TraceLen, key \in TaskKeys :
           \E case \in {"send", "done", "default"} : EntryTask(j, i, key, case)
    \/ \E j \in JobIds : JobEnd(j)

SpecPrefetch == Init /\ [][PrefetchStep]_vars

----------------------------------------------------------------------------
(* DedupDaemon.Shutdown with the workers and the prefetch jobs running *)

notShutdown == <<storeVars, mountVars, layerVars, snapVars, race, builderVars, loaderVars,
                lockVars, loadChunkVars>>

\* The goroutines of the daemon that have not returned: download workers, prefetch
\* jobs and the tasks of their entries.
Background ==
    {w \in DownloadWorkers : dw[w].pc # "exited"}
        \cup {j \in DOMAIN jobs : jobs[j].pc # "ended" \/ jobs[j].running # {}}

\* The orders in which a range over the map of objects can visit its keys.
RangeOrders(keys) ==
    {order \in [1..Cardinality(keys) -> keys] :
        \A a, b \in 1..Cardinality(keys) : a # b => order[a] # order[b]}

\* Backend.Close: Volume.Close of the volume, which closes each object and then
\* the volume's cookie, then the backend's own descriptor.
BackendClose(order) ==
    [k \in 1..Len(order) |-> <<"object", order[k]>>]
        \o << <<"volume", "v">>, <<"backend", "b">> >>

\* Shutdown: d.prefetcher.Stop() after the queue is closed.
ShutdownStop ==
    /\ shutdown.pc = "running"
    /\ queueClosed
    /\ jobs' = [j \in DOMAIN jobs |->
                   IF \E i \in DOMAIN activeJobs : activeJobs[i] = j
                   THEN [jobs[j] EXCEPT !.cancelled = TRUE] ELSE jobs[j]]
    /\ activeJobs' = << >>
    /\ lastPrefetch' = PrefetchCall("Stop", "", FALSE)
    /\ shutdown' = [shutdown EXCEPT !.pc = "stopped"]
    /\ UNCHANGED <<daemonVars, notShutdown>>

\* Shutdown: return d.backend.Close()
ShutdownBackend(order) ==
    /\ shutdown.pc = "stopped"
    /\ order \in RangeOrders(DOMAIN volObjects)
    /\ shutdown' = [pc |-> "returned", closed |-> BackendClose(order), live |-> Background]
    /\ UNCHANGED <<daemonVars, prefetchVars, notShutdown>>

\* Shutdown against the prefetch jobs; the workers are idle and return once the
\* context is cancelled (what they do with a task is SpecDaemon's).
ShutdownStep ==
    \/ \E w \in DownloadWorkers : WorkerExit(w)
    \/ ShutdownCancel
    \/ ShutdownClose
    \/ \E image \in PrefetchImages, traceOk \in BOOLEAN : StartPrefetch(image, traceOk)
    \/ \E j \in JobIds, case \in {"done", "sem"} : JobLoop(j, case)
    \/ \E j \in JobIds, i \in 1..TraceLen, key \in TaskKeys :
           \E case \in {"send", "done", "default"} : EntryTask(j, i, key, case)
    \/ \E j \in JobIds : JobEnd(j)
    \/ ShutdownStop
    \/ \E order \in UNION {RangeOrders(keys) : keys \in SUBSET TaskKeys} :
           ShutdownBackend(order)

SpecShutdown == Init /\ [][ShutdownStep]_vars

----------------------------------------------------------------------------
(* The locks of the object cache: d.mu, b.mu and v.mu (sync.RWMutex), o.mu (sync.Mutex) *)

notLocks == <<storeVars, mountVars, layerVars, snapVars, race, builderVars, loaderVars,
              daemonVars, prefetchVars, shutdownVars, loadChunkVars>>

LockOps == {"CreateVolume", "CreateObject", "GetObject", "Write", "MarkComplete",
            "GetStats", "Close"}

\* The Lock, RLock, Unlock and RUnlock calls of the methods other than GetStats, in
\* the order the method makes them.  RegisterImage holds d.mu around
\* Backend.CreateVolume; Backend.Close holds b.mu around Volume.Close, which holds
\* v.mu around each CacheObject.Close.  GetAllJobStatuses, with one job in the map,
\* holds p.mu around GetJobStatus, which takes p.mu again and then job.mu.
MethodCalls(op) ==
    IF op = "CreateVolume"
    THEN << <<"Lock", "d">>, <<"Lock", "b">>, <<"Unlock", "b">>, <<"Unlock", "d">> >>
    ELSE IF op = "CreateObject" THEN << <<"Lock", "v">>, <<"Unlock", "v">> >>
    ELSE IF op = "GetObject" THEN << <<"RLock", "v">>, <<"RUnlock", "v">> >>
    ELSE IF op \in {"Write", "MarkComplete"} THEN << <<"Lock", "o">>, <<"Unlock", "o">> >>
    ELSE IF op = "Close"
    THEN << <<"Lock", "b">>, <<"Lock", "v">>, <<"Lock", "o">>,
            <<"Unlock", "o">>, <<"Unlock", "v">>, <<"Unlock", "b">> >>
    ELSE IF op = "GetJobStatus"
    THEN << <<"RLock", "p">>, <<"Lock", "j">>, <<"Unlock", "j">>, <<"RUnlock", "p">> >>
    ELSE IF op = "GetAllJobStatuses"
    THEN << <<"RLock", "p">>, <<"RLock", "p">>, <<"Lock", "j">>, <<"Unlock", "j">>,
            <<"RUnlock", "p">>, <<"RUnlock", "p">> >>
    ELSE IF op = "prefetchEntry" THEN << <<"Lock", "j">>, <<"Unlock", "j">> >>
    ELSE << <<"Lock", "p">>, <<"Unlock", "p">> >>

\* A GetStats that takes the volume's lock before the backend's.
StatsVolumeFirst(op) ==
    IF op = "GetStats"
    THEN << <<"RLock", "d">>, <<"RLock", "v">>, <<"RLock", "b">>,
            <<"RUnlock", "b">>, <<"RUnlock", "v">>, <<"RUnlock", "d">> >>
    ELSE MethodCalls(op)

\* The lock and unlock calls of a method: DedupDaemon.GetStats holds d.mu around
\* Backend.GetStats, which holds b.mu around each volume's v.mu.
LockCalls(op) ==
    IF op = "GetStats"
    THEN << <<"RLock", "d">>, <<"RLock", "b">>, <<"RLock", "v">>,
            <<"RUnlock", "v">>, <<"RUnlock", "b">>, <<"RUnlock", "d">> >>
    ELSE MethodCalls(op)

\* The call the caller t is at.
CallOf(t) == LockCalls(lockers[t].op)[lockers[t].pc]

\* The caller t goes on to its next call, or returns.
Advance(t) ==
    IF lockers[t].pc = Len(LockCalls(lockers[t].op))
    THEN IdleLocker
    ELSE [lockers[t] EXCEPT !.pc = @ + 1, !.st = "run"]

\* sync.RWMutex: whether the caller t can take its next step.  Lock waits for the
\* writer before it, then for the readers that hold the lock (readers counts every
\* RLock not yet undone); RLock waits while a writer holds or has asked for the
\* lock, until that writer's Unlock lets it in.
CanStep(t) ==
    /\ lockers[t].op # "idle"
    /\ LET call == CallOf(t)
           m == mutexes[call[2]]
       IN  CASE call[1] = "Lock" /\ lockers[t].st = "run" -> m.writer = "none"
             [] call[1] = "Lock" /\ lockers[t].st = "drain" -> m.readers = EmptyBag
             [] call[1] = "RLock" /\ lockers[t].st = "rwait" -> t \notin m.rwait
             [] OTHER -> TRUE

\* A caller enters one of the methods.
LockerBegin(t, op) ==
    /\ lockers[t].op = "idle"
    /\ lockers' = [lockers EXCEPT ![t] = [op |-> op, pc |-> 1, st |-> "run"]]
    /\ UNCHANGED <<mutexes, notLocks>>

\* The next step of the caller t in its method.
LockerStep(t) ==
    /\ CanStep(t)
    /\ LET call == CallOf(t)
           name == call[2]
           m == mutexes[name]
       IN  CASE call[1] = "Lock" /\ lockers[t].st = "run" ->
                   /\ mutexes' = [mutexes EXCEPT ![name].writer = t]
                   /\ lockers' = [lockers EXCEPT ![t] =
                                     IF m.readers = EmptyBag THEN Advance(t)
                                     ELSE [lockers[t] EXCEPT !.st = "drain"]]
             [] call[1] = "Lock" /\ lockers[t].st = "drain" ->
                   /\ lockers' = [lockers EXCEPT ![t] = Advance(t)]
                   /\ UNCHANGED mutexes
             [] call[1] = "RLock" /\ lockers[t].st = "run" ->
                   IF m.writer = "none"
                   THEN /\ mutexes' = [mutexes EXCEPT ![name].readers = @ (+) SetToBag({t})]
                        /\ lockers' = [lockers EXCEPT ![t] = Advance(t)]
                   ELSE /\ mutexes' = [mutexes EXCEPT ![name].rwait = @ \cup {t}]
                        /\ lockers' = [lockers EXCEPT ![t].st = "rwait"]
             [] call[1] = "RLock" /\ lockers[t].st = "rwait" ->
                   /\ lockers' = [lockers EXCEPT ![t] = Advance(t)]
                   /\ UNCHANGED mutexes
             [] call[1] = "Unlock" ->
                   /\ mutexes' = [mutexes EXCEPT ![name] =
                                     [writer |-> "none",
                                      readers |-> m.readers (+) SetToBag(m.rwait),
                                      rwait |-> {}]]
                   /\ lockers' = [lockers EXCEPT ![t] = Advance(t)]
             [] call[1] = "RUnlock" ->
                   /\ mutexes' = [mutexes EXCEPT ![name].readers = @ (-) SetToBag({t})]
                   /\ lockers' = [lockers EXCEPT ![t] = Advance(t)]
    /\ UNCHANGED notLocks

LockStep ==
    \/ \E t \in LockThreads, op \in LockOps : LockerBegin(t, op)
    \/ \E t \in LockThreads : LockerStep(t)

SpecLocks == Init /\ [][LockStep]_vars

\* The callers of the prefetcher; runPrefetchJob stands for its deferred function
\* and prefetchEntry for the task of an entry, which sets job.Index under job.mu.
StatusOps == {"GetAllJobStatuses", "GetJobStatus", "StartPrefetch", "StopPrefetch", "Stop",
              "runPrefetchJob", "prefetchEntry"}

StatusStep ==
    \/ \E t \in LockThreads, op \in StatusOps : LockerBegin(t, op)
    \/ \E t \in LockThreads : LockerStep(t)

SpecStatus == Init /\ [][StatusStep]_vars

----------------------------------------------------------------------------
(* Properties of the chunk store and index *)

RefCountsMatchFiles ==
    \A d \in Digests :
        IF d \in DOMAIN chunks
        THEN chunks[d].ref_count = Occurrences(files, d)
        ELSE Occurrences(files, d) = 0

\* C1: in every reachable state of the index, after any sequence of WriteFile and
\* IndexFile calls, the stored ref_count of every digest equals the number of its
\* occurrences over the chunk lists of all rows of the files table.
C1_RefCountEqualsOccurrences == RefCountsMatchFiles

\* C2: a chunk file named <digest> exists under chunks/ if and only if the index has
\* an entry for <digest> with refcount > 0 (stated of the states in which no
\* WriteFile is in progress).
C2_ChunkFileIffLiveEntry ==
    Idle => \A d \in Digests :
                (d \in chunkFiles) <=> (d \in DOMAIN chunks /\ chunks[d].ref_count > 0)

\* C3: after any sequence of successful WriteFile calls on a fresh store, the number
\* of files under chunks/ equals the number of distinct digests over the streams
\* written.
C3_ChunkFilesAreDistinctDigests ==
    (Idle /\ ~faulted) => Cardinality(chunkFiles) = Cardinality(written)

\* Every writer has made one WriteFile call, of the same single chunk d, under its
\* own path, nothing else has touched the store, and all the calls have returned.
SameChunkEverywhere(d) ==
    /\ Idle
    /\ ~faulted
    /\ calls = Cardinality(Writers)
    /\ \A w \in Writers : ret[w].path \in Paths /\ ret[w].hashes = <<d>>
    /\ \A w1, w2 \in Writers : w1 # w2 => ret[w1].path # ret[w2].path

\* C4: N writers concurrently write identical single-chunk content under N distinct
\* paths: in every interleaving all N calls succeed, exactly one chunk file exists
\* and the chunk's final refcount is N.
C4_ConcurrentIdenticalWrites ==
    \A d \in Digests :
        SameChunkEverywhere(d) =>
            /\ \A w \in Writers : ret[w].ok
            /\ Cardinality(chunkFiles) = 1
            /\ RefCountOf(chunks, d) = Cardinality(Writers)

\* C5: IndexFile is all-or-nothing: when it returns an error no chunk row, refcount
\* or files row has changed; when it succeeds every digest's refcount has grown by
\* exactly its number of occurrences in chunks and the files row of path holds that
\* ordered list.
C5_IndexFileAllOrNothing ==
    last.op = "IndexFile" =>
        IF last.ok
        THEN /\ \A d \in Digests :
                    RefCountOf(chunks, d) = RefCountOf(last.before, d) + Count(last.hashes, d)
             /\ last.path \in DOMAIN files
             /\ parseChunkHashes(files[last.path]) = last.hashes
        ELSE chunks = last.before /\ files = last.filesBefore

\* C6: no sequence of increment and decrement calls makes a refcount negative.
C6_RefCountNeverNegative == \A d \in DOMAIN chunks : chunks[d].ref_count >= 0

\* C7: after rebuild() has completed, every chunk row's refcount equals the number
\* of occurrences of its digest over all files rows.
C7_RebuildRestoresRefCounts ==
    (last.op = "NewIndexDB" /\ boot.rebuilt) =>
        \A d \in DOMAIN chunks : chunks[d].ref_count = Occurrences(files, d)

CleanExits == {"DedupStore.Close", "Snapshotter.Close", "IndexDB.Close"}
Crashes == {"crash", "crash in WriteFile"}

\* C8: the lock sentinel exists exactly while the index is open: an open creates it
\* and a clean close of the store removes it, so an open that follows a clean
\* shutdown does not enter the crash recovery path and one that follows a crash does.
C8_LockFileWhileOpen ==
    /\ open => lockFile
    /\ (~open /\ lastExit \in CleanExits) => ~lockFile
    /\ (open /\ lastExit \in CleanExits) => ~boot.recovered
    /\ (open /\ lastExit \in Crashes) => boot.recovered

\* C9: when the process is killed inside WriteFile / IndexFile, the next open detects
\* the stale lock or WAL and, once it has returned, every refcount equals the count
\* of its digest over all files rows.
C9_CrashRecoveryRestoresRefCounts ==
    (last.op = "NewIndexDB" /\ lastExit = "crash in WriteFile") =>
        boot.recovered /\ RefCountsMatchFiles

----------------------------------------------------------------------------
(* Properties of the mount manager *)

MountCalls == {"MountErofs", "MountErofsWithFscache"}

\* The first successful mount_image of an image attaches one loop device, mounts
\* once and records RefCount 1.
FirstMountAttachesOnce ==
    (lastMount.op = "MountErofs" /\ lastMount.ok /\ ~lastMount.existed) =>
        /\ lastMount.attaches = 1
        /\ lastMount.mounts = 1
        /\ lastMount.image \in DOMAIN activeMounts
        /\ activeMounts[lastMount.image].RefCount = 1

\* A mount call that finds a record attaches and mounts nothing, adds one to its
\* RefCount and returns the path recorded.
LaterMountReuses ==
    (lastMount.op \in MountCalls /\ lastMount.existed) =>
        /\ lastMount.ok
        /\ lastMount.attaches = 0
        /\ lastMount.mounts = 0
        /\ activeMounts[lastMount.image].RefCount = lastMount.refBefore + 1
        /\ lastMount.path = MountPathOf(lastMount.image)

AtMostOneKernelMount == \A i \in Images : kernelMounts[i] <= 1

\* C10: mount_image is idempotent and reference counted: the first successful call
\* for an image attaches one loop device, mounts once and records refcount 1; every
\* later call while the record exists attaches and mounts nothing, adds exactly one
\* to the refcount and returns the same mount path; at most one physical mount
\* exists per image at any time.
C10_MountIdempotentRefCounted ==
    /\ FirstMountAttachesOnce
    /\ LaterMountReuses
    /\ AtMostOneKernelMount

----------------------------------------------------------------------------
(* Properties of the snapshotter *)

\* The existing snapshots whose parent_ids contain the image.
SnapshotsOver(rows, imageID) ==
    {k \in DOMAIN rows :
        LET ps == ParentIDs(rows, rows[k].Parent)
        IN  \E j \in 1..Len(ps) : ps[j] = imageID}

\* C12: in every reachable state of the snapshotter, for every image recorded in
\* the mount manager, the RefCount of its record equals the number of existing
\* snapshots whose parent_ids contain that image.
C12_RefCountEqualsSnapshots ==
    \A i \in DOMAIN activeMounts :
        activeMounts[i].RefCount = Cardinality(SnapshotsOver(snapshots, i))

\* The RefCount an image is recorded with, 0 when it is not recorded.
MountRefCount(tbl, imageID) == IF imageID \in DOMAIN tbl THEN tbl[imageID].RefCount ELSE 0

\* C13: after Remove succeeds on a snapshot that is not marked actively mounted, the
\* snapshot directory and the metadata row are gone, the RefCount of each recorded
\* parent image is one less than before and no other image's RefCount has changed.
C13_RemoveReleasesParents ==
    (lastSnap.op = "Remove" /\ lastSnap.err = "" /\ lastSnap.key \notin lastSnap.before.marks) =>
        LET b == lastSnap.before
            ps == ParentIDs(b.snapshots, b.snapshots[lastSnap.key].Parent)
            parents == {ps[j] : j \in 1..Len(ps)} \cap DOMAIN b.mounts
        IN  /\ lastSnap.id \notin snapDirs
            /\ lastSnap.key \notin DOMAIN snapshots
            /\ \A i \in Images :
                   MountRefCount(activeMounts, i) =
                       MountRefCount(b.mounts, i) - (IF i \in parents THEN 1 ELSE 0)

\* C14: Remove of a key marked actively mounted returns success and changes
\* nothing: the metadata rows, the snapshot directories, the marks and every mount
\* record are as before the call.
C14_DeferredRemoveIsNoOp ==
    (lastSnap.op = "Remove" /\ lastSnap.key \in lastSnap.before.marks) =>
        /\ lastSnap.err = ""
        /\ snapshots = lastSnap.before.snapshots
        /\ snapDirs = lastSnap.before.snapDirs
        /\ snapActiveMounts = lastSnap.before.marks
        /\ activeMounts = lastSnap.before.mounts

\* Remove has been called on an existing snapshot that Mounts had marked.
C14_Witness ==
    /\ lastSnap.op = "Remove"
    /\ lastSnap.key \in lastSnap.before.marks
    /\ lastSnap.key \in DOMAIN snapshots
    /\ snapshots[lastSnap.key].ID \in snapDirs

\* The keys whose row holds the id.
KeysOfID(rows, id) == {k \in DOMAIN rows : rows[k].ID = id}

KindOfID(rows, id) ==
    IF KeysOfID(rows, id) = {} THEN "none"
    ELSE rows[CHOOSE k \in KeysOfID(rows, id) : TRUE].Kind

\* Prepare creates an Active row under a new key, View a View row.
CreatedKinds ==
    (lastSnap.op \in {"Prepare", "View"} /\ lastSnap.err = "") =>
        /\ lastSnap.key \notin DOMAIN lastSnap.before.snapshots
        /\ lastSnap.key \in DOMAIN snapshots
        /\ snapshots[lastSnap.key].Kind = (IF lastSnap.op = "Prepare" THEN "Active" ELSE "View")

\* Commit(name, key) succeeds only on an Active key, whose row then sits under name
\* as Committed with the usage measured; a Commit that fails changes nothing, and
\* Commit of a View, Committed or missing key fails.
CommitOnlyActive ==
    lastSnap.op = "Commit" =>
        LET b == lastSnap.before.snapshots
        IN  /\ IF lastSnap.err = ""
               THEN /\ lastSnap.key \in DOMAIN b
                    /\ b[lastSnap.key].Kind = "Active"
                    /\ lastSnap.key \notin DOMAIN snapshots
                    /\ lastSnap.name \in DOMAIN snapshots
                    /\ snapshots[lastSnap.name].Kind = "Committed"
                    /\ snapshots[lastSnap.name].Usage = lastSnap.usage
                    /\ snapshots[lastSnap.name].ID = b[lastSnap.key].ID
               ELSE /\ snapshots = b
                    /\ snapDirs = lastSnap.before.snapDirs
                    /\ activeMounts = lastSnap.before.mounts
            /\ (lastSnap.key \notin DOMAIN b \/ b[lastSnap.key].Kind # "Active") =>
                   lastSnap.err # ""

\* One step takes a snapshot from no row to Active or View, from Active to
\* Committed, or to no row; a Committed snapshot stays Committed while it exists.
LifecycleStep ==
    \A i \in 1..Len(IDs) :
        LET old == KindOfID(snapshots, IDs[i])
            new == KindOfID(snapshots', IDs[i])
        IN  \/ new = old
            \/ new = "none"
            \/ old = "none" /\ new \in {"Active", "View"}
            \/ old = "Active" /\ new = "Committed"

RaceDone == race.commit = "returned" /\ race.remove \in {"returned", "deferred"}

\* The race was over a key whose directory existed and a name not in use, and no
\* step of either call met an I/O error.
RaceClean == RaceDone /\ race.intact /\ ~race.nameUsed /\ ~race.fault

\* Remove took effect and Commit returned NotFound: key removed, name absent.
RemoveWon ==
    /\ race.remove = "returned"
    /\ race.removeErr = ""
    /\ race.commitErr = "NotFound"
    /\ race.key \notin DOMAIN snapshots
    /\ race.name \notin DOMAIN snapshots
    /\ race.id \notin snapDirs

\* Commit took effect: name Committed with its directory, key absent.
Committed ==
    /\ race.commitErr = ""
    /\ race.key \notin DOMAIN snapshots
    /\ race.name \in DOMAIN snapshots
    /\ snapshots[race.name].Kind = "Committed"
    /\ snapshots[race.name].ID = race.id
    /\ race.id \in snapDirs

\* Commit took effect and Remove returned NotFound.
CommitWon == Committed /\ race.remove = "returned" /\ race.removeErr = "NotFound"

C18_FailedCallLeavesNothing ==
    /\ (lastSnap.op \in {"Prepare", "View"} /\ lastSnap.err # "") =>
           /\ snapshots = lastSnap.before.snapshots
           /\ snapDirs = lastSnap.before.snapDirs
           /\ \A i \in Images :
                  MountRefCount(activeMounts, i) = MountRefCount(lastSnap.before.mounts, i)
    /\ (lastSnap.op = "Remove" /\ lastSnap.err # "") =>
           /\ snapshots = lastSnap.before.snapshots
           /\ snapDirs = lastSnap.before.snapDirs

----------------------------------------------------------------------------
(* Properties of the layer processor and the chunk indexer *)

\* C19: a ProcessLayer call on an archive whose digest an earlier call has
\* processed successfully returns success without re-chunking: the chunk rows,
\* every ref_count and the bindings of every layer are as before the call.
C19_ProcessedLayerShortCircuits ==
    (lastLayer.op = "ProcessLayer" /\ lastLayer.seen) =>
        /\ lastLayer.ok
        /\ Index = lastLayer.before

\* SUM(c.size) FROM image_chunks ic JOIN chunks c ON ic.chunk_hash = c.hash
\* WHERE ic.image_id = L
BoundSize(L) ==
    LET rows == RowsOf(imageChunks, L)
    IN  SumOver(rows, [r \in rows |-> IF r.chunk_hash \in DOMAIN erofsChunks
                                      THEN erofsChunks[r.chunk_hash].size ELSE 0])

\* C20: after any sequence of RecordChunk and RemoveImage calls, for every layer
\* with a row in images, chunk_count is the number of its image_chunks rows,
\* total_size the sum of the chunks' sizes over those rows, and the rows' orders
\* are exactly 0..chunk_count-1 in the order the chunks were recorded.
C20_LayerRowMatchesBindings ==
    \A L \in DOMAIN imageRows :
        LET rows == RowsOf(imageChunks, L)
        IN  /\ imageRows[L].chunk_count = Cardinality(rows)
            /\ imageRows[L].total_size = BoundSize(L)
            /\ {r.chunk_order : r \in rows} = 0..(imageRows[L].chunk_count - 1)
            /\ Len(recorded[L]) = imageRows[L].chunk_count
            /\ \A r \in rows : r.chunk_hash = recorded[L][r.chunk_order + 1]

\* A layer holds the same chunk twice and a different one once, and another layer
\* that shared a chunk with it has just been removed.
C20_Witness ==
    /\ lastLayer.op = "RemoveImage"
    /\ lastLayer.ok
    /\ lastLayer.before.images # imageRows
    /\ \E L \in DOMAIN imageRows :
           /\ imageRows[L].chunk_count = 3
           /\ Cardinality({r.chunk_hash : r \in RowsOf(imageChunks, L)}) = 2

\* The digests of the bindings of layer L in the index ix.
HashesOf(ix, L) == {r.chunk_hash : r \in RowsOf(ix.imageChunks, L)}

\* C21: a successful RemoveImage(L) decrements the ref_count of each chunk L
\* references, leaves no chunk row at ref_count <= 0, deletes the row and the
\* bindings of L, and reports exactly the digests whose rows it deleted (their
\* files are to be erased); a chunk another layer still references keeps its row
\* with ref_count > 0.
C21_RemoveLayerReportsErased ==
    (lastLayer.op = "RemoveImage" /\ lastLayer.ok) =>
        LET b == lastLayer.before
            L == lastLayer.image
        IN  /\ \A h \in HashesOf(b, L) \cap DOMAIN erofsChunks :
                   erofsChunks[h].ref_count = b.chunks[h].ref_count - 1
            /\ \A h \in DOMAIN erofsChunks : erofsChunks[h].ref_count > 0
            /\ RowsOf(imageChunks, L) = {}
            /\ L \notin DOMAIN imageRows
            /\ \A o \in Images \ {L} : \A h \in HashesOf(b, o) :
                   h \in DOMAIN erofsChunks /\ erofsChunks[h].ref_count > 0
            /\ lastLayer.erased = DOMAIN b.chunks \ DOMAIN erofsChunks

----------------------------------------------------------------------------
(* Properties of fixed-size chunking *)

\* ceil(n / ChunkLen)
CeilDiv(n) == (n + ChunkLen - 1) \div ChunkLen

Min(a, b) == IF a < b THEN a ELSE b

\* The bytes [i*ChunkLen, min((i+1)*ChunkLen, n)) of s, i counted from 0.
AlignedWindow(s, i) ==
    SubSeq(s, i * ChunkLen + 1, Min((i + 1) * ChunkLen, Len(s)))

\* C23: a stream of n bytes is cut into ceil(n / ChunkSize) chunks, chunk i covers
\* the bytes [i*ChunkSize, min((i+1)*ChunkSize, n)), every chunk but the last has
\* ChunkSize bytes and the last has 1..ChunkSize; an empty stream has no chunk; and
\* two chunks (of one stream or of two) have the same digest only when their
\* aligned windows hold the same bytes.
C23_FixedSizeChunking ==
    chunker.in # << >> =>
        /\ \A k \in 1..2 :
               LET s == chunker.in[k]
                   cs == chunker.data[k]
                   fs == chunker.file[k]
               IN  /\ Len(cs) = CeilDiv(Len(s))
                   /\ Len(fs) = CeilDiv(Len(s))
                   /\ \A i \in 1..Len(cs) :
                          /\ cs[i].Size = Len(AlignedWindow(s, i - 1))
                          /\ cs[i].Hash = Sum256(AlignedWindow(s, i - 1))
                          /\ fs[i] = [Hash |-> cs[i].Hash, Offset |-> (i - 1) * ChunkLen,
                                      Size |-> cs[i].Size]
                          /\ cs[i].Size \in 1..ChunkLen
                          /\ i < Len(cs) => cs[i].Size = ChunkLen
        /\ \A k, m \in 1..2 :
               \A i \in 1..Len(chunker.data[k]), j \in 1..Len(chunker.data[m]) :
                   chunker.data[k][i].Hash = chunker.data[m][j].Hash
                       <=> AlignedWindow(chunker.in[k], i - 1) = AlignedWindow(chunker.in[m], j - 1)

\* A stream of two full chunks and a short one has been chunked next to the same
\* bytes shifted by one: they share no chunk although they share most bytes.
C23_Witness ==
    /\ chunker.in # << >>
    /\ Len(chunker.in[1]) = 2 * ChunkLen + 1
    /\ chunker.in[2] = <<1>> \o SubSeq(chunker.in[1], 1, 2 * ChunkLen)
    /\ Len(chunker.data[1]) = 3
    /\ \A i \in 1..3, j \in 1..3 : chunker.data[1][i].Hash # chunker.data[2][j].Hash

----------------------------------------------------------------------------
(* Properties of the chunk files *)

RECURSIVE SumSizes(_, _)
SumSizes(cs, k) == IF k > Len(cs) THEN 0 ELSE cs[k].Size + SumSizes(cs, k + 1)

\* C22: when deduplicateFile has returned without error, the chunk sizes sum to
\* the file size, the offsets are contiguous from 0, and the file reconstructed
\* from the stored chunks in recorded order holds the original bytes.
C22_ReconstructIsOriginal ==
    \A g \in Goroutines :
        bld[g].pc = "done" =>
            /\ SumSizes(bld[g].chunks, 1) = Len(bld[g].file)
            /\ \A i \in 1..Len(bld[g].chunks) :
                   bld[g].chunks[i].Offset = SumSizes(SubSeq(bld[g].chunks, 1, i - 1), 1)
            /\ bld[g].out = bld[g].file

\* C24: every file under its digest name holds the complete chunk, whatever the
\* interleaving of the writers and wherever a writer failed or died.
C24_ChunkFilesAreComplete ==
    \A h \in DOMAIN chunkContent : Sum256(chunkContent[h]) = h

\* Every file of the lazy cache under its digest name holds the complete chunk.
CacheFilesAreComplete ==
    \A nm \in DOMAIN cacheNames :
        ~nm.tmp => Sum256(cacheInodes[cacheNames[nm]]) = nm.hash

----------------------------------------------------------------------------
(* Properties of the download daemon *)

\* C25: an object marked complete holds exactly as many bytes as its advertised
\* size; a fetch that returns fewer or more bytes than the task's size, or a short
\* write, never ends with the object complete.
C25_CompleteMeansFullSize ==
    \A key \in DOMAIN volObjects :
        volObjects[key].Complete => volObjects[key].written = volObjects[key].Size

\* At most one object was ever created for a key, and the kernel has accepted at
\* most one "complete" for it, which is what made it complete.
OneObjectOneComplete ==
    \A key \in DOMAIN volObjects :
        /\ volObjects[key].made = 1
        /\ volObjects[key].cmds = (IF volObjects[key].Complete THEN 1 ELSE 0)

\* The worker w leaves the test of exists && obj.Complete in this step.
LeavesGet(w) == dw[w].pc = "get" /\ dw'[w] # dw[w]

\* No object disappears or goes back to incomplete, and a task that finds its
\* object complete ends at once: nothing is fetched and no object changes.
DuplicateStep ==
    /\ \A key \in DOMAIN volObjects :
           /\ key \in DOMAIN volObjects'
           /\ volObjects[key].Complete => volObjects'[key].Complete
    /\ \A w \in DownloadWorkers :
           (/\ LeavesGet(w)
            /\ dw[w].task.key \in DOMAIN volObjects
            /\ volObjects[dw[w].task.key].Complete)
               => /\ dw'[w] = IdleWorker
                  /\ lastTask'.outcome = "cached"
                  /\ volObjects' = volObjects

C27_BoundedFifoNeverBlocks ==
    /\ Len(downloadQueue) <= QueueCap
    /\ accepted = taken \o [i \in 1..Len(downloadQueue) |-> downloadQueue[i].id]
    /\ lastEnqueue.outcome # "panic"
    /\ ("send" \notin lastEnqueue.ready \/ "done" \in lastEnqueue.ready)
           => lastEnqueue.outcome \in {"none", "dropped"}

\* A worker has returned only after the cancellation, and no task was received
\* twice.
WorkersOutliveFailures ==
    /\ \A w \in DownloadWorkers : dw[w].pc = "exited" => ctxDone
    /\ \A i, j \in 1..Len(taken) : taken[i] = taken[j] => i = j

\* The task of worker w fails in this step.
FailsNow(w) ==
    /\ dw[w].pc \notin {"idle", "exited"}
    /\ dw'[w].pc \in {"idle", "exited"}
    /\ lastTask'.outcome = "failed"
    /\ lastTask'.worker = w

\* A failing task is not put back on the queue, completes no object (its own, if
\* it exists, is as complete as before the step), and its worker is back at its
\* select.
FailureStep ==
    \A w \in DownloadWorkers :
        FailsNow(w) =>
            /\ downloadQueue' = downloadQueue
            /\ accepted' = accepted
            /\ volObjects' = volObjects
            /\ dw'[w] = IdleWorker

\* C28: when a step of a task fails (object creation, fetch, write, mark-complete)
\* the task is dropped and not retried, it leaves its object, if created, not
\* marked complete, and its worker goes back to the queue and processes later
\* tasks; no failure stops a worker.
C28_FailedTaskIsDropped ==
    /\ []WorkersOutliveFailures
    /\ [][FailureStep]_vars

\* The worker whose task failed last has fetched the data of a later task; the
\* object of the key of the failed task is incomplete.
C28_Witness ==
    \E w \in DownloadWorkers :
        /\ lastTask.outcome = "failed"
        /\ lastTask.worker = w
        /\ lastTask.key \in DOMAIN volObjects
        /\ ~volObjects[lastTask.key].Complete
        /\ dw[w].pc = "write"
        /\ dw[w].task.id > lastTask.id

----------------------------------------------------------------------------
(* Properties of the prefetcher *)

\* StartPrefetch for an image that has an entry in the map returns an error.
StartOnActiveFails ==
    (lastPrefetch.op = "StartPrefetch" /\ lastPrefetch.image \in DOMAIN lastPrefetch.before)
        => lastPrefetch.err

\* C29: at most one prefetch job per image runs at a time: StartPrefetch for an
\* image with an active job returns an error, and no two job goroutines of one
\* image run at the same time.
C29_OneJobPerImage ==
    /\ StartOnActiveFails
    /\ \A image \in PrefetchImages : Cardinality(Running(jobs, image)) <= 1

\* A job that has seen its cancellation starts no further entry.
NoEntryAfterCancel ==
    \A j \in DOMAIN jobs :
        jobs[j].pc \in {"cancelled", "ended"} =>
            /\ jobs'[j].running \subseteq jobs[j].running
            /\ jobs'[j].next = jobs[j].next

\* A job with a running task is in the map.
ActiveWhileTasksRun ==
    \A j \in DOMAIN jobs :
        jobs[j].running # {} =>
            /\ jobs[j].image \in DOMAIN activeJobs
            /\ activeJobs[jobs[j].image] = j

\* C30: a cancelled job starts no further trace entry once it has seen the
\* cancellation, and a job is never absent from the active set while one of its
\* tasks is still running.
C30_CancelledJobStaysActive == [][NoEntryAfterCancel]_vars /\ []ActiveWhileTasksRun

----------------------------------------------------------------------------
(* Properties of Shutdown *)

CloseRank(kind) == IF kind = "object" THEN 1 ELSE IF kind = "volume" THEN 2 ELSE 3

\* Descriptors are closed object before volume before backend.
ClosedInOrder ==
    \A a, b \in 1..Len(shutdown.closed) :
        a < b => CloseRank(shutdown.closed[a][1]) <= CloseRank(shutdown.closed[b][1])

\* Shutdown cancels the daemon's context and closes in order.
ShutdownCancelsAndOrders == shutdown.pc = "returned" => ctxDone /\ ClosedInOrder

\* C31: Shutdown is ordered: the tokens are cancelled and every worker and every
\* prefetch job goroutine has returned before a cache descriptor is closed, the
\* descriptors are closed object, volume, backend, and once Shutdown has returned
\* no background task of the daemon runs.
C31_ShutdownIsOrdered ==
    shutdown.pc = "returned" =>
        /\ ctxDone
        /\ shutdown.live = {}
        /\ ClosedInOrder

----------------------------------------------------------------------------
(* Properties of the locks *)

\* daemon, backend, volume, object
LockRank(name) == IF name = "d" THEN 1 ELSE IF name = "b" THEN 2 ELSE IF name = "v" THEN 3 ELSE 4

\* The locks the caller t holds or has asked for as a writer.
HeldBy(t) ==
    {name \in MutexNames : mutexes[name].writer = t \/ BagIn(t, mutexes[name].readers)}

\* A caller that is about to take a lock holds only locks that come before it.
LocksInOrder ==
    \A t \in LockThreads :
        (lockers[t].op # "idle" /\ CallOf(t)[1] \in {"Lock", "RLock"}) =>
            \A name \in HeldBy(t) \ {CallOf(t)[2]} : LockRank(name) < LockRank(CallOf(t)[2])

\* Some caller inside a method can take its next step.
NoDeadlock ==
    (\E t \in LockThreads : lockers[t].op # "idle") => \E t \in LockThreads : CanStep(t)

\* C32: every path takes the locks in the order daemon, backend, volume, object, and
\* no interleaving of CreateVolume, CreateObject, GetObject, Write, MarkComplete,
\* GetStats and Close deadlocks.
C32_LockOrderNoDeadlock == LocksInOrder /\ NoDeadlock

\* Close holds the backend's, the volume's and the object's lock while GetStats,
\* holding the daemon's lock, waits for the backend's and a third caller waits.
C32_Witness ==
    \E t, u, w \in LockThreads :
        /\ HeldBy(t) = {"b", "v", "o"}
        /\ lockers[u].op = "GetStats" /\ lockers[u].st = "rwait" /\ ~CanStep(u)
        /\ w \notin {t, u} /\ lockers[w].op # "idle" /\ ~CanStep(w)

----------------------------------------------------------------------------
(* Properties of Mounts on a missing key *)

\* Mounts on a key that has no snapshot returns NotFound and leaves the marks alone.
MountsOfMissingKeyChangesNothing ==
    (lastSnap.op = "Mounts" /\ lastSnap.key \notin DOMAIN lastSnap.before.snapshots) =>
        /\ lastSnap.err = "NotFound"
        /\ snapActiveMounts = lastSnap.before.marks

\* A Remove that reports success on a snapshot Mounts was never called for has
\* removed it.
UnmountedSnapshotIsRemoved ==
    (/\ lastSnap.op = "Remove"
     /\ lastSnap.err = ""
     /\ lastSnap.key \in DOMAIN lastSnap.before.snapshots
     /\ lastSnap.before.snapshots[lastSnap.key].ID \notin mountedIDs)
        => lastSnap.key \notin DOMAIN snapshots

\* C33: Mounts(key) on a key that does not exist returns NotFound and changes no
\* state; it does not mark the key, so a snapshot prepared under the key later can
\* still be removed by Remove(key).
C33_MountsOfMissingKey ==
    MountsOfMissingKeyChangesNothing /\ UnmountedSnapshotIsRemoved

----------------------------------------------------------------------------
(* Properties of the mount records *)

\* A mount call that found a record found one that counts a live mount.
ReusedRecordIsLive ==
    (lastMount.op \in {"MountErofs", "MountErofsWithFscache"} /\ lastMount.existed)
        => lastMount.refBefore >= 1

\* C34: every record in the mount manager's map has RefCount >= 1, also after an
\* Unmount whose umount failed: no record with a count of 0 or less stays in the
\* map to be reused by a mount call as a live mount.
C34_RecordsCountLiveMounts ==
    /\ \A imageID \in DOMAIN activeMounts : activeMounts[imageID].RefCount >= 1
    /\ ReusedRecordIsLive

----------------------------------------------------------------------------
(* Properties of the queue at shutdown *)

\* C35: no task is sent on the download queue after the queue has been closed: in
\* no interleaving of Shutdown with running prefetch jobs or callers of
\* EnqueueDownload is a send on the closed channel (a panic) reached.
C35_NoSendOnClosedQueue == lastEnqueue.outcome # "panic"

----------------------------------------------------------------------------
(* Properties of the active set when jobs end *)

\* C36: a job that finishes removes only its own entry from the active set: the
\* end of an old job's goroutine never deletes a new job's entry, so a job that
\* runs and was not cancelled is in the set, where GetJobStatus reports it and
\* StartPrefetch finds it.
C36_JobRemovesOnlyItsEntry ==
    \A j \in DOMAIN jobs :
        (jobs[j].pc # "ended" /\ ~jobs[j].cancelled) =>
            /\ jobs[j].image \in DOMAIN activeJobs
            /\ activeJobs[jobs[j].image] = j

----------------------------------------------------------------------------
(* Properties of the prefetcher's lock *)

\* C37: GetAllJobStatuses always terminates: run together with StartPrefetch,
\* StopPrefetch, Stop or the end of a job, which take the prefetcher's write lock,
\* it never deadlocks, although it takes the read lock again through GetJobStatus
\* while it holds it.
C37_StatusesNeverDeadlock ==
    \A t \in LockThreads :
        lockers[t].op = "GetAllJobStatuses" =>
            (CanStep(t) \/ \E u \in LockThreads \ {t} : CanStep(u))

----------------------------------------------------------------------------
(* Properties of LoadChunk's read lock *)

\* C38: LoadChunk releases its read lock exactly once on every path, also when the
\* chunk is marked loaded and its cache file is missing: it then goes on to a fresh
\* load and does not unlock a lock it does not hold.
C38_ReadLockReleasedOnce ==
    \A g \in Goroutines :
        /\ lc[g].pc # "fatal"
        /\ lc[g].runlocks <= lc[g].rlocks
        /\ lc[g].pc = "returned" => lc[g].runlocks = 1

----------------------------------------------------------------------------
(* Properties of recording a layer and removing it *)

RECURSIVE RecordedByAll(_, _)
\* The RecordChunk calls for h of the layers in the set, removed layers left out.
RecordedByAll(layers, h) ==
    IF layers = {} THEN 0
    ELSE LET L == CHOOSE x \in layers : TRUE
         IN  Count(recorded[L], h) + RecordedByAll(layers \ {L}, h)

\* C39: recording a layer and then removing it is a round trip on the chunk table:
\* after a successful RemoveImage every chunk counts the occurrences recorded by
\* the layers that remain, as it did before the removed layer was recorded (which
\* may have referenced a digest more than once), and a chunk no remaining layer
\* references is gone.
C39_RecordRemoveRoundTrip ==
    (lastLayer.op = "RemoveImage" /\ lastLayer.ok) =>
        \A h \in DOMAIN lastLayer.before.chunks :
            IF RecordedByAll(Images, h) = 0
            THEN h \notin DOMAIN erofsChunks
            ELSE /\ h \in DOMAIN erofsChunks
                 /\ erofsChunks[h].ref_count = RecordedByAll(Images, h)

----------------------------------------------------------------------------
(* Properties of createSnapshot's transaction *)

\* C40: every createSnapshot ends the write transaction it opened, by commit or by
\* rollback, on every return path, so a failed Prepare or View leaves no write
\* transaction open and later calls that write can proceed.
C40_CreateSnapshotEndsTransaction ==
    lastSnap.op \in {"Prepare", "View"} => ~txOpen

====
